---- MODULE Spec2Model ----
(***************************************************************************)
(* A model of one analysis run of the SonarQube plugin (src/src/util/sq.py, *)
(* class SonarQube, with the REST client of src/src/util/api.py).           *)
(*                                                                         *)
(* The main thread executes scan_proj.  The reader thread that             *)
(* SonarQube.Process starts for the local server's stdout runs the         *)
(* callback _start_sonarqube concurrently with it.  Wall-clock time is the  *)
(* variable now (seconds): sleep(sleep_second) advances it by sleep_second  *)
(* and every REST request of the run by latency, one of 0..MaxLatency.      *)
(***************************************************************************)
EXTENDS Integers, Sequences, FiniteSets, TLC

\* ------------------------------------------------------------------ bounds
\* longest REST request, in seconds
MaxLatency == 1
\* number of log lines the local server process emits in one run
MaxLines == 2
\* seconds the build and scan commands take
ScanSeconds == 7

\* most characters of the value of BUILD_CWD, and of the path inside the
\* component the server reports
MaxBuildCwd == 4
MaxComponent == 2

\* most duplications in an answer of duplications_show, and most blocks in
\* one duplication
MaxDuplications == 2
MaxBlocks == 2

\* most issues the server holds, and its largest page size
MaxTotal == 9
MaxPageSize == 4

\* most parameters of a rule in a document, and most entries of rule_list
MaxParameters == 2
MaxRuleList == 2

\* most issues in the list the summary is made of
MaxFound == 3

\* most descendants of the process kill_proc_famliy is called for
MaxChildren == 3

\* most lines the child of run_cmd writes to its stderr
MaxOutput == 2

\* most file names SONAR_QUALITYPROFILE lists
MaxOverrides == 2

\* HTTP status codes of the answers given to one call of _request
MinStatus == 100
MaxStatus == 599

\* ------------------------------------------------------- program constants
sleep_second == 5
DefaultTimeout == 300
retry_times == 5

LOCAL_MODEL == "LOCAL"
COMMON_MODEL == "COMMON"

\* settings.SQ_LOCAL_USER
SQ_LOCAL_USER ==
    [url |-> "http://localhost", port |-> 9000, base_path |-> "",
     username |-> "admin", password |-> "admin", projectKey |-> "test"]

\* settings.SQ_COMMON_USER is None in the repository's settings; a deployment
\* that has a shared server sets it to a record like this one.
None == [url |-> "", port |-> 0, base_path |-> "",
         username |-> "", password |-> "", projectKey |-> ""]

CommonUser ==
    [url |-> "http://sq.shared", port |-> 9000, base_path |-> "/sq",
     username |-> "token", password |-> "", projectKey |-> "shared"]

\* values of the environment variable SONAR_TIMEOUT used by the model
SonarTimeouts == {3, 7, 30}

\* task_params["project_id"]
ProjectIds == {"42"}

VARIABLES
    \* configuration of the run (never changes after Init)
    SQ_TYPE, SQ_COMMON_USER, platform, SONAR_TIMEOUT, project_id, latency,
    \* fields of the SonarQube object
    model, base_url, port, base_path, user, password, projectKey,
    sonar_handle, is_local_up, timeout, com_cmd,
    \* main thread: position in scan_proj and the locals of the wait loops
    pc, deadline, is_server_up, is_project_created, cnt, sonar_report,
    is_success, id, res,
    \* the local server process and the reader thread watching its log
    proc, reader, nlines,
    \* wall clock
    now,
    \* outcome of the run: exception class and message that left scan_proj
    err, msg,
    \* observations (history of the run, read by the properties only)
    kills, abort_kill, failed_in, entry, polls, last_status, first_up,
    flag_at_entry, last_code, codes, polled_model, marker_seen, fatal_at,
    report_line, reads, queries,
    \* one call of SQAPIHandler._request, looked at on its own
    http_status, response,
    \* one call of _set_qualityprofiles, looked at on its own: its inputs
    \* (languages, params["rules"], the two environment variables, the files),
    \* its dict of paths, the calls of qualityprofiles_restore it has made
    \* and its position
    languages, rules, SONAR_QUALITYPROFILE_TYPE, SONAR_QUALITYPROFILE, files,
    qualityprofile_filepaths, restored, step,
    \* one call of run_cmd, looked at on its own: the child process, what it
    \* wrote to its stderr pipe, the reader thread of that pipe (its position,
    \* how much it has read, what it has handed to the callback, the exception
    \* that ended it) and the position of the main thread in run_cmd
    cmd_type, child, returncode, pipe, nread, delivered, do_pc, thread_err,
    wait_pc,
    \* the path of one finding, looked at on its own: the two environment
    \* variables, the component the server reports and the path computed
    SOURCE_DIR, BUILD_CWD, component, finding_path,
    \* one pass of the issue loop of scan_proj, looked at on its own: the
    \* issue, the is_quality flag, the rules argument of get_issues, the
    \* answer of duplications_show and the issues list
    issue, is_quality, query_rules, dupl_blocks, issues,
    \* get_issues, looked at on its own: the server's number of issues and
    \* its page size, the locals of the generator, params["p"], the pages
    \* requested, the issues yielded and the position in the generator
    total, ps, page_num, page_size, n_issues, params_p, requested, yielded,
    gen_pc,
    \* the scan function, looked at on its own: the function scan_proj was
    \* given, its arguments, the environment variable SQ_JAVA_BUILD, the
    \* commands run so far with their return codes, and the position in it
    scan_fun, build_type, build_cmd, SQ_JAVA_BUILD, commands, scan_pc,
    \* the parameter overrides of _set_qualityprofiles for one retained rule,
    \* looked at on their own: params["rule_list"], the rule's parameters in
    \* the document as it was read, the parameters as they are now, and the
    \* position in the loop body
    rule_list, original, parameters, over_pc,
    \* the cognitive-complexity summary of scan_proj, looked at on its own:
    \* params["incr_scan"], the issues list, params["summary"]["cogncomplexity"]
    \* and the position
    incr_scan, found, summary, sum_pc,
    \* kill_proc_famliy, looked at on its own: what became of the target,
    \* how each of its descendants answers kill(), the descendants alive, the
    \* descendants kill() was called on, and the position in the function
    target, descendants, alive, attempted, kill_pc,
    \* the report handle of scan_proj: the SONAR_REPORT setting, the files and
    \* directories that exist once the scan has run, what the scan function
    \* returned, the local sonar_report after the fallback, and the position
    SONAR_REPORT, on_disk, returned, report_path, report_pc,
    \* conf/sonar.properties over several runs of the tool: the lines of the
    \* file, sonar.properties.temp when it exists, SONAR_SERVER_PARAMS and
    \* self.model of the run, the lines the server of the run was started
    \* with, the runs so far, and the position
    property_path, property_temp, SONAR_SERVER_PARAMS, run_model, started_with, runs, prop_pc

config == <<SQ_TYPE, SQ_COMMON_USER, platform, SONAR_TIMEOUT, project_id,
           latency>>
endpoint == <<model, base_url, port, base_path, user, password, projectKey, sonar_handle>>
locals == <<deadline, is_server_up, is_project_created, cnt, sonar_report,
           is_success, id, res>>
server == <<proc, reader, nlines>>
outcome == <<err, msg, failed_in>>
waitobs == <<entry, polls, last_status, first_up, flag_at_entry, last_code, codes,
            polled_model>>
taskobs == <<report_line, reads, queries>>
logobs == <<marker_seen, fatal_at>>

\* the variables of the analysis run
run == <<config, endpoint, is_local_up, timeout, com_cmd, pc, locals, server,
         now, outcome, kills, abort_kill, waitobs, logobs, taskobs>>

\* the variables of the functions that are looked at on their own
transport == <<http_status, response>>
profiles == <<languages, rules, SONAR_QUALITYPROFILE_TYPE, SONAR_QUALITYPROFILE,
              files, qualityprofile_filepaths, restored, step>>
supervisor == <<cmd_type, child, returncode, pipe, nread, delivered, do_pc,
                thread_err, wait_pc>>
extractor == <<SOURCE_DIR, BUILD_CWD, component, finding_path>>
extraction == <<issue, is_quality, query_rules, dupl_blocks, issues>>
paging == <<total, ps, page_num, page_size, n_issues, params_p, requested,
           yielded, gen_pc>>
builder == <<scan_fun, build_type, build_cmd, SQ_JAVA_BUILD, commands, scan_pc>>
overriding == <<rule_list, original, parameters, over_pc>>
complexity == <<incr_scan, found, summary, sum_pc>>
killing == <<target, descendants, alive, attempted, kill_pc>>
reporting == <<SONAR_REPORT, on_disk, returned, report_path, report_pc>>
propfiles == <<property_path, property_temp, SONAR_SERVER_PARAMS, run_model, started_with, runs, prop_pc>>
final == <<overriding, complexity, killing, reporting, propfiles>>
later == <<extraction, paging, builder, final>>
detail == <<transport, profiles, supervisor, extractor, later>>

vars == <<run, detail>>


\* ----------------------------------------------------------- REST client
\* SQAPIHandler.__init__: the handle remembers the address and the auth pair
SQAPIHandler(host, p, bp, auth) ==
    [host |-> host, port |-> p, base_path |-> bp, auth |-> auth]

\* SonarQube.__init__: user/password when a password is configured, else token
LocalHandle ==
    IF SQ_LOCAL_USER.password # ""
    THEN SQAPIHandler(SQ_LOCAL_USER.url, SQ_LOCAL_USER.port, SQ_LOCAL_USER.base_path,
                      <<SQ_LOCAL_USER.username, SQ_LOCAL_USER.password>>)
    ELSE SQAPIHandler(SQ_LOCAL_USER.url, SQ_LOCAL_USER.port, SQ_LOCAL_USER.base_path,
                      <<SQ_LOCAL_USER.username, "">>)

\* HTTP status codes the server answers with
StatusCodes == {200, 400, 401, 403, 404, 500}

\* _request with 400 left to the branch of the other 4xx codes
_request_400_generic(status_code) ==
    IF status_code < 300 THEN "ok"
    ELSE IF status_code \in {401, 403} THEN "AuthError"
    ELSE IF status_code < 500 THEN "ClientError"
    ELSE "ServerError"

\* SQAPIHandler._request: "ok" or the class of the exception it raises
_request(status_code) ==
    IF status_code < 300 THEN "ok"
    ELSE IF status_code = 400 THEN "ValidationError"
    ELSE IF status_code \in {401, 403} THEN "AuthError"
    ELSE IF status_code < 500 THEN "ClientError"
    ELSE "ServerError"

\* the handler that catches no class of exception
IsClientError_none(cls) == FALSE

\* util/exceptions.py: AuthError and ValidationError derive from ClientError
IsClientError(cls) == cls \in {"ClientError", "AuthError", "ValidationError"}

\* ------------------------------------------------ teardown and error exit
\* _kill_sonar: terminate the process tree of the java process whose command
\* line holds lib/sonar-application
_kill_sonar ==
    /\ proc' = IF proc = "running" THEN "killed" ELSE proc
    /\ kills' = kills + 1

\* _raise_error without the test of self.model: _kill_sonar on every error
_raise_error_always_kills(m, err_type) ==
    /\ err' = IF err_type = "compile" THEN "CompileTaskError"
              ELSE IF err_type = "config" THEN "ConfigError"
              ELSE "AnalyzeTaskError"
    /\ msg' = m
    /\ failed_in' = pc
    /\ pc' = "raise_kill"
    /\ UNCHANGED <<proc, kills, abort_kill>>

\* _raise_error, the test of self.model: the error to raise is fixed by the
\* arguments; with a LOCAL model the call of _kill_sonar comes first.  The
\* reader thread may run between the test and the call.
_raise_error(m, err_type) ==
    /\ err' = IF err_type = "compile" THEN "CompileTaskError"
              ELSE IF err_type = "config" THEN "ConfigError"
              ELSE "AnalyzeTaskError"
    /\ msg' = m
    /\ failed_in' = pc
    /\ pc' = IF model = LOCAL_MODEL THEN "raise_kill" ELSE "failed"
    /\ UNCHANGED <<proc, kills, abort_kill>>

\* an exception that no handler of scan_proj catches leaves scan_proj as it is
Propagate(cls, m) ==
    /\ err' = cls
    /\ msg' = m
    /\ failed_in' = pc
    /\ pc' = "failed"
    /\ UNCHANGED <<proc, kills, abort_kill>>

\* ------------------------------------------------------ server selection
\* _use_common_sonarqube that leaves the project key as it is
_use_common_sonarqube_keeps_key ==
    /\ model' = COMMON_MODEL
    /\ base_url' = SQ_COMMON_USER.url
    /\ port' = SQ_COMMON_USER.port
    /\ base_path' = SQ_COMMON_USER.base_path
    /\ user' = SQ_COMMON_USER.username
    /\ password' = SQ_COMMON_USER.password
    /\ sonar_handle' = SQAPIHandler(SQ_COMMON_USER.url, SQ_COMMON_USER.port,
                                    SQ_COMMON_USER.base_path,
                                    <<SQ_COMMON_USER.username, "">>)
    /\ is_local_up' = TRUE
    /\ UNCHANGED projectKey

\* _use_common_sonarqube: every endpoint field, the handle and the flag
_use_common_sonarqube ==
    /\ model' = COMMON_MODEL
    /\ base_url' = SQ_COMMON_USER.url
    /\ port' = SQ_COMMON_USER.port
    /\ base_path' = SQ_COMMON_USER.base_path
    /\ user' = SQ_COMMON_USER.username
    /\ password' = SQ_COMMON_USER.password
    /\ projectKey' = SQ_COMMON_USER.projectKey \o "_" \o project_id
    /\ sonar_handle' = SQAPIHandler(SQ_COMMON_USER.url, SQ_COMMON_USER.port,
                                    SQ_COMMON_USER.base_path,
                                    <<SQ_COMMON_USER.username, "">>)
    /\ is_local_up' = TRUE

\* a log line is the sequence of its parts; line.find(s) != -1
Find(line, s) == \E i \in DOMAIN line : line[i] = s

\* the known-fatal substrings of _start_sonarqube
FatalSignatures ==
    {"app[][o.s.a.SchedulerImpl] SonarQube is stopped",
     "sudo: pam_open_session: Permission denied",
     "java.lang.IllegalStateException: SonarQube requires Java 11 to run",
     "sudo: sorry, you must have a tty to run sudo",
     "org.elasticsearch.cluster.block.ClusterBlockException: blocked by: [FORBIDDEN/12/index read-only / allow delete (api)];",
     "sudoers.so must be only be writable by owner",
     "fatal error, unable to load plugins"}

ReadyMarker == "SonarQube is up"

\* lines the local server writes
LogLines ==
    {<<"INFO web", "Starting">>,
     <<"INFO app[][o.s.a.SchedulerImpl] ", ReadyMarker>>,
     <<"INFO ", "app[][o.s.a.SchedulerImpl] SonarQube is stopped">>,
     <<"fatal error, unable to load plugins", " before ", ReadyMarker>>}

\* _start_sonarqube without the test of SQ_COMMON_USER
_start_sonarqube_unchecked(line) ==
    IF \E s \in FatalSignatures : Find(line, s)
    THEN _use_common_sonarqube
    ELSE IF Find(line, ReadyMarker)
         THEN is_local_up' = TRUE /\ UNCHANGED endpoint
         ELSE UNCHANGED <<endpoint, is_local_up>>

\* _start_sonarqube: the callback of the local server's stdout
_start_sonarqube(line) ==
    IF \E s \in FatalSignatures : Find(line, s)
    THEN IF SQ_COMMON_USER # None
         THEN _use_common_sonarqube
         ELSE UNCHANGED <<endpoint, is_local_up>>
    ELSE IF Find(line, ReadyMarker)
         THEN is_local_up' = TRUE /\ UNCHANGED endpoint
         ELSE UNCHANGED <<endpoint, is_local_up>>

\* ------------------------------------------------------------------ Init
\* no function is looked at on its own during the analysis run
TransportIdle ==
    /\ http_status = 0
    /\ response = "none"

ProfilesIdle ==
    /\ languages = {}
    /\ rules = {}
    /\ SONAR_QUALITYPROFILE_TYPE = <<>>
    /\ SONAR_QUALITYPROFILE = <<>>
    /\ files = <<>>
    /\ qualityprofile_filepaths = <<>>
    /\ restored = <<>>
    /\ step = "idle"

SupervisorIdle ==
    /\ cmd_type = "none"
    /\ child = "none"
    /\ returncode = 0
    /\ pipe = <<>>
    /\ nread = 0
    /\ delivered = <<>>
    /\ do_pc = "none"
    /\ thread_err = "none"
    /\ wait_pc = "idle"

ExtractorIdle ==
    /\ SOURCE_DIR = <<>>
    /\ BUILD_CWD = <<>>
    /\ component = <<>>
    /\ finding_path = <<>>

ExtractionIdle ==
    /\ issue = <<>>
    /\ is_quality = FALSE
    /\ query_rules = <<>>
    /\ dupl_blocks = <<>>
    /\ issues = <<>>

PagingIdle ==
    /\ total = 0
    /\ ps = 1
    /\ page_num = 1
    /\ page_size = 1
    /\ n_issues = 2
    /\ params_p = <<>>
    /\ requested = <<>>
    /\ yielded = <<>>
    /\ gen_pc = "none"

BuilderIdle ==
    /\ scan_fun = "none"
    /\ build_type = "none"
    /\ build_cmd = <<>>
    /\ SQ_JAVA_BUILD = FALSE
    /\ commands = <<>>
    /\ scan_pc = "none"

OverridingIdle ==
    /\ rule_list = <<>>
    /\ original = <<>>
    /\ parameters = <<>>
    /\ over_pc = "none"

ComplexityIdle ==
    /\ incr_scan = FALSE
    /\ found = <<>>
    /\ summary = <<>>
    /\ sum_pc = "none"

KillingIdle ==
    /\ target = "none"
    /\ descendants = <<>>
    /\ alive = {}
    /\ attempted = {}
    /\ kill_pc = "none"

ReportingIdle ==
    /\ SONAR_REPORT = <<>>
    /\ on_disk = {}
    /\ returned = <<>>
    /\ report_path = <<>>
    /\ report_pc = "none"

PropfilesIdle ==
    /\ property_path = <<>>
    /\ property_temp = <<>>
    /\ SONAR_SERVER_PARAMS = <<>>
    /\ run_model = "none"
    /\ started_with = <<>>
    /\ runs = 0
    /\ prop_pc = "none"

FinalIdle == OverridingIdle /\ ComplexityIdle /\ KillingIdle /\ ReportingIdle /\ PropfilesIdle

LaterIdle == ExtractionIdle /\ PagingIdle /\ BuilderIdle /\ FinalIdle

DetailIdle ==
    TransportIdle /\ ProfilesIdle /\ SupervisorIdle /\ ExtractorIdle /\ LaterIdle

\* the SonarQube object after __init__, and the environment of the run
InitRun ==
    /\ SQ_TYPE \in {"", COMMON_MODEL}
    /\ SQ_COMMON_USER \in {None, CommonUser}
    /\ platform \in {"linux", "win32"}
    /\ SONAR_TIMEOUT \in {<<t>> : t \in SonarTimeouts}
    /\ project_id \in ProjectIds
    /\ latency \in 0..MaxLatency
    /\ model = LOCAL_MODEL
    /\ base_url = SQ_LOCAL_USER.url
    /\ port = SQ_LOCAL_USER.port
    /\ base_path = SQ_LOCAL_USER.base_path
    /\ user = SQ_LOCAL_USER.username
    /\ password = SQ_LOCAL_USER.password
    /\ projectKey = SQ_LOCAL_USER.projectKey
    /\ sonar_handle = LocalHandle
    /\ is_local_up = (platform = "win32")
    /\ timeout = DefaultTimeout
    /\ com_cmd = <<>>
    /\ pc = "start"
    /\ deadline = 0
    /\ is_server_up = FALSE
    /\ is_project_created = FALSE
    /\ cnt = 0
    /\ sonar_report = <<>>
    /\ is_success = FALSE
    /\ id = <<>>
    /\ res = [raised |-> FALSE, status |-> "", errorMessage |-> <<>>]
    /\ proc = "none"
    /\ reader = "none"
    /\ nlines = 0
    /\ now = 0
    /\ err = "none"
    /\ msg = "none"
    /\ failed_in = "none"
    /\ kills = 0
    /\ abort_kill = FALSE
    /\ entry = 0
    /\ polls = 0
    /\ last_status = "none"
    /\ first_up = 0
    /\ flag_at_entry = FALSE
    /\ last_code = 0
    /\ codes = {}
    /\ polled_model = "none"
    /\ marker_seen = FALSE
    /\ fatal_at = 0
    /\ report_line = <<>>
    /\ reads = 0
    /\ queries = {}

Init == InitRun /\ DetailIdle

\* ------------------------------------------------- scan_proj: server start
\* scan_proj, SQ_TYPE=COMMON with shared credentials: link the shared server
LinkCommon ==
    /\ pc = "start"
    /\ SQ_TYPE = COMMON_MODEL /\ SQ_COMMON_USER # None
    /\ timeout' = IF SONAR_TIMEOUT # <<>> THEN SONAR_TIMEOUT[1] ELSE timeout
    /\ _use_common_sonarqube
    /\ pc' = "wait_on"
    /\ UNCHANGED <<detail, config, com_cmd, locals, server, now, outcome, kills,
                   abort_kill, waitobs, logobs, taskobs>>

\* scan_proj, every other case: _start_local_sonarqube kills a server that is
\* still around and spawns the local one with _start_sonarqube on its stdout
StartLocal ==
    /\ pc = "start"
    /\ ~(SQ_TYPE = COMMON_MODEL /\ SQ_COMMON_USER # None)
    /\ timeout' = IF SONAR_TIMEOUT # <<>> THEN SONAR_TIMEOUT[1] ELSE timeout
    /\ kills' = kills + 1
    /\ proc' = "running"
    /\ reader' = "reading"
    /\ pc' = "wait_on"
    /\ UNCHANGED <<detail, config, endpoint, is_local_up, com_cmd, locals, nlines, now,
                   outcome, abort_kill, waitobs, logobs, taskobs>>

\* ------------------------------------------ reader thread (Process.do)
\* one line read from the local server's stdout and handed to the callback
do_callback ==
    /\ reader = "reading"
    /\ nlines < MaxLines
    /\ \E line \in LogLines :
          /\ _start_sonarqube(line)
          /\ marker_seen' = (marker_seen \/ Find(line, ReadyMarker))
          /\ fatal_at' = IF fatal_at = 0 /\ \E s \in FatalSignatures : Find(line, s)
                         THEN nlines + 1 ELSE fatal_at
    /\ nlines' = nlines + 1
    /\ UNCHANGED <<detail, config, timeout, com_cmd, pc, locals, proc, reader, now,
                   outcome, kills, abort_kill, waitobs, taskobs>>

\* the process has ended and the pipe is drained: the thread ends
do_exit ==
    /\ reader = "reading"
    /\ proc = "killed"
    /\ reader' = "done"
    /\ UNCHANGED <<detail, config, endpoint, is_local_up, timeout, com_cmd, pc, locals,
                   proc, nlines, now, outcome, kills, abort_kill, waitobs,
                   logobs, taskobs>>

\* ------------------------------------------- _wait_until_sonarqube_on
\* answers of GET api/system/status: a status, a body without one, an exception
StatusAnswers == {"UP", "STARTING", "absent", "raise"}

\* the deadline without the clock: self.timeout taken as an absolute time
Deadline_no_clock == timeout

\* timeout = time() + self.timeout, as each wait loop starts
Deadline == now + timeout

\* the loop condition with "and" for "or": either of the two ends the wait
WaitOnCondition_and == ~is_server_up /\ ~is_local_up

\* the loop condition without the status: the flag alone ends the wait
WaitOnCondition_flag_only == ~is_local_up

\* while not is_server_up or not self.is_local_up
WaitOnCondition == ~is_server_up \/ ~is_local_up

\* entry: the deadline and the local is_server_up
WaitOnEnter ==
    /\ pc = "wait_on"
    /\ deadline' = Deadline
    /\ is_server_up' = FALSE
    /\ entry' = now
    /\ polls' = 0
    /\ last_status' = "none"
    /\ first_up' = 0
    /\ flag_at_entry' = is_local_up
    /\ last_code' = 0
    /\ codes' = {}
    /\ polled_model' = "none"
    /\ pc' = "wait_on_loop"
    /\ UNCHANGED <<detail, config, endpoint, is_local_up, timeout, com_cmd,
                   is_project_created, cnt, sonar_report, is_success, id, res,
                   server, now, outcome, kills, abort_kill, logobs, taskobs>>

\* the loop condition is evaluated: into the body, or out of the function
WaitOnLoop ==
    /\ pc = "wait_on_loop"
    /\ pc' = IF WaitOnCondition THEN "wait_on_poll" ELSE "get_common_cmds"
    /\ UNCHANGED <<detail, config, endpoint, is_local_up, timeout, com_cmd, locals,
                   server, now, outcome, kills, abort_kill, waitobs,
                   logobs, taskobs>>

\* the loop body: sleep, one status poll, then the deadline check
WaitOnPoll ==
    /\ pc = "wait_on_poll"
    /\ \E answer \in StatusAnswers :
          LET status == IF answer = "absent" THEN "DOWN" ELSE answer
              up == (answer # "raise" /\ status = "UP")
              t == now + sleep_second + latency
          IN /\ now' = t
             /\ is_server_up' = up
             /\ polls' = polls + 1
             /\ last_status' = status
             /\ polled_model' = model
             /\ first_up' = IF first_up = 0 /\ up THEN polls + 1 ELSE first_up
             /\ IF deadline < t
                THEN _raise_error("wait_on_timeout", "analyze")
                ELSE /\ pc' = "wait_on_loop"
                     /\ UNCHANGED <<proc, kills, abort_kill, outcome>>
    /\ UNCHANGED <<detail, config, endpoint, is_local_up, timeout, com_cmd, deadline,
                   is_project_created, cnt, sonar_report, is_success, id, res,
                   reader, nlines, entry, flag_at_entry, last_code, codes, logobs, taskobs>>

\* ------------------------------------------------ scan_proj: middle phases
\* _get_common_cmds: the endpoint as the scan command line will carry it
_get_common_cmds ==
    << <<"-Dsonar.projectKey", projectKey>>,
       <<"-Dsonar.host.url", <<base_url, port, base_path>> >>,
       <<"-Dsonar.login", user>>,
       <<"-Dsonar.password", password>> >>

GetCommonCmds ==
    /\ pc = "get_common_cmds"
    /\ com_cmd' = _get_common_cmds
    /\ pc' = "project_create"
    /\ UNCHANGED <<detail, config, endpoint, is_local_up, timeout, locals, server, now,
                   outcome, kills, abort_kill, waitobs, logobs, taskobs>>

\* _wait_until_project_create, entry
ProjectCreateEnter ==
    /\ pc = "project_create"
    /\ deadline' = Deadline
    /\ is_project_created' = FALSE
    /\ cnt' = 0
    /\ entry' = now
    /\ polls' = 0
    /\ last_status' = "none"
    /\ first_up' = 0
    /\ flag_at_entry' = FALSE
    /\ last_code' = 0
    /\ codes' = {}
    /\ polled_model' = "none"
    /\ pc' = "project_create_loop"
    /\ UNCHANGED <<detail, config, endpoint, is_local_up, timeout, com_cmd, is_server_up,
                   sonar_report, is_success, id, res, server, now, outcome,
                   kills, abort_kill, logobs, taskobs>>

\* _wait_until_project_create, one iteration: the request, the handlers of
\* ValidationError and ClientError, the retry check and the deadline check
ProjectCreateTry ==
    /\ pc = "project_create_loop"
    /\ \E code \in StatusCodes :
          LET out == _request(code)
              created == (out = "ok" \/ out = "ValidationError")
              retried == (~created /\ IsClientError(out))
              t == now + latency + (IF retried THEN sleep_second ELSE 0)
          IN /\ cnt' = cnt + 1
             /\ last_code' = code
             /\ codes' = codes \cup {code}
             /\ polled_model' = polled_model
             /\ polls' = polls + 1
             /\ now' = t
             /\ is_project_created' = created
             /\ IF ~created /\ ~retried
                THEN Propagate(out, "project_create")
                ELSE IF cnt + 1 > retry_times
                THEN _raise_error("project_create_retry", "analyze")
                ELSE IF deadline < t
                THEN _raise_error("project_create_timeout", "analyze")
                ELSE /\ pc' = IF created THEN "set_settings"
                              ELSE "project_create_loop"
                     /\ UNCHANGED <<proc, kills, abort_kill, outcome>>
    /\ UNCHANGED <<detail, config, endpoint, is_local_up, timeout, com_cmd, deadline,
                   is_server_up, sonar_report, is_success, id, res, reader, nlines,
                   entry, last_status, first_up, flag_at_entry, logobs,
                   taskobs>>

\* a call has returned: its locals are gone, and so is what was observed of it
ForgetLocals ==
    /\ deadline' = 0
    /\ is_server_up' = FALSE
    /\ is_project_created' = FALSE
    /\ cnt' = 0
    /\ is_success' = FALSE
    /\ id' = <<>>
    /\ res' = [raised |-> FALSE, status |-> "", errorMessage |-> <<>>]
    /\ entry' = 0
    /\ polls' = 0
    /\ last_status' = "none"
    /\ first_up' = 0
    /\ flag_at_entry' = FALSE
    /\ last_code' = 0
    /\ codes' = {}
    /\ polled_model' = "none"
    /\ report_line' = <<>>
    /\ queries' = {}
    /\ UNCHANGED reads

\* a REST call of scan_proj that no handler surrounds
DirectCall(next, what) ==
    /\ \E code \in StatusCodes :
          IF _request(code) = "ok"
          THEN pc' = next /\ UNCHANGED <<proc, kills, abort_kill, outcome>>
          ELSE Propagate(_request(code), what)
    /\ UNCHANGED <<detail, config, endpoint, is_local_up, timeout, com_cmd, reader,
                   nlines, now, logobs>>

\* sonar_handle.set_settings for SONAR_DEVCOST and SONAR_DEBT_RATINGGRID, when
\* the environment sets them (no call is the same step as a call answered 200)
SetSettings ==
    /\ pc = "set_settings"
    /\ DirectCall("set_qualityprofiles", "set_settings")
    /\ ForgetLocals
    /\ UNCHANGED sonar_report

\* _set_qualityprofiles: a missing override file is a ConfigError through
\* _raise_error; restore and add_project are unguarded REST calls
SetQualityProfiles ==
    /\ pc = "set_qualityprofiles"
    /\ \/ /\ _raise_error("qualityprofile_missing", "config")
          /\ UNCHANGED <<detail, config, endpoint, is_local_up, timeout, com_cmd, reader,
                         nlines, now, logobs>>
       \/ DirectCall("scan", "qualityprofiles_restore")
    /\ UNCHANGED <<locals, waitobs, taskobs>>

\* report-task.txt as the scanner writes it; the fifth line names the task
Report(line5) ==
    << <<"p", "=", "t">>, <<"s", "=", "u">>, <<"v", "=", "8">>, <<"d", "=", "u">>,
       line5, <<"u", "=", "A">> >>

\* fifth lines of the report: ceTaskId=AX as the scanner writes it, the same
\* with white space around it, a line with two = signs and a line with none
RunIdLines ==
    {<<"c", "=", "A", "X", "\n">>,
     <<" ", "c", "=", "A", " ", "\n">>,
     <<"c", "=", "A", "=", "X", "\n">>,
     <<"c", "A", "\n">>}

\* scan_fun (scan_java_proj, scan_cs_proj, scan_not_build_proj) through
\* run_cmd: a failed build or scan step raises through _raise_error
Scan ==
    /\ pc = "scan"
    /\ now' = now + ScanSeconds
    /\ \/ /\ \E r \in {Report(l) : l \in RunIdLines} \cup {<<>>} :
                sonar_report' = r
          /\ pc' = "wait_task"
          /\ UNCHANGED <<proc, kills, abort_kill, outcome>>
       \/ /\ _raise_error("compile_failed", "compile")
          /\ UNCHANGED sonar_report
       \/ /\ _raise_error("scan_failed", "analyze")
          /\ UNCHANGED sonar_report
    /\ UNCHANGED <<detail, config, endpoint, is_local_up, timeout, com_cmd, deadline,
                   is_server_up, is_project_created, cnt, is_success, id, res,
                   reader, nlines, waitobs, logobs, taskobs>>

\* ------------------------------------------- _wait_until_task_succeed
\* str.strip(): leading and trailing white space removed
IsSpace(c) == c \in {" ", "\n"}

RECURSIVE lstrip(_)
lstrip(s) == IF s # <<>> /\ IsSpace(Head(s)) THEN lstrip(Tail(s)) ELSE s

RECURSIVE rstrip(_)
rstrip(s) ==
    IF s # <<>> /\ IsSpace(s[Len(s)]) THEN rstrip(SubSeq(s, 1, Len(s) - 1)) ELSE s

strip(s) == rstrip(lstrip(s))

\* str.split(sep)[-1]: the text after the last sep, all of s when it has none
RECURSIVE split_last(_, _)
split_last(s, sep) ==
    IF \E i \in DOMAIN s : s[i] = sep
    THEN split_last(Tail(s), sep)
    ELSE s

\* the task id taken from the fourth line
ReadTaskId_fourth_line(report) == split_last(strip(report[4]), "=")

\* f.readlines()[4].strip().split("=")[-1]
ReadTaskId(report) == split_last(strip(report[5]), "=")

\* re.I: the letters of a message part folded to lower case
Lower(part) ==
    CASE part = "Load Called Twice For Thread '" -> "load called twice for thread '"
      [] part = "' Or State Wasn't Cleared Last Time It Was Used" ->
                "' or state wasn't cleared last time it was used"
      [] OTHER -> part

\* re.match("load called twice for thread '.*' or state wasn't cleared last
\* time it was used", errorMessage, re.I) on a message given by its parts
ReMatchLoadCalledTwice(m) ==
    /\ Len(m) >= 2
    /\ Lower(m[1]) = "load called twice for thread '"
    /\ \E j \in 2..Len(m) :
          Lower(m[j]) = "' or state wasn't cleared last time it was used"

\* the error raised for a FAILED task, by its errorMessage
ClassifyFailed(m) ==
    IF ReMatchLoadCalledTwice(m) THEN "task_needs_restart"
    ELSE IF m = <<"Java heap space">> THEN "task_heap_space"
    ELSE IF m = <<"Unrecoverable indexation failures: 1 errors among 1 requests">>
    THEN "task_index_failure"
    ELSE "task_unclassified"

\* errorMessage values of a FAILED task
ErrorMessages ==
    {<<"load called twice for thread '", "main",
       "' or state wasn't cleared last time it was used">>,
     <<"Load Called Twice For Thread '", "main",
       "' Or State Wasn't Cleared Last Time It Was Used", " (retry)">>,
     <<"Error: ", "load called twice for thread '", "main",
       "' or state wasn't cleared last time it was used">>,
     <<"Java heap space">>,
     <<"java heap space">>,
     <<"Unrecoverable indexation failures: 1 errors among 1 requests">>,
     <<"Unrecoverable indexation failures: ", "2 errors among 2 requests">>,
     <<"Fail to unzip plugin">>}

\* what sonar_handle.ce_task gives: an exception, or the task's status with
\* the errorMessage a FAILED task may carry (<<>> when the key is absent)
TaskAnswers ==
    {[raised |-> TRUE, status |-> "", errorMessage |-> <<>>]}
    \cup {[raised |-> FALSE, status |-> st, errorMessage |-> <<>>] :
             st \in {"PENDING", "IN_PROGRESS", "CANCELED", "SUCCESS", "FAILED"}}
    \cup {[raised |-> FALSE, status |-> "FAILED", errorMessage |-> <<m>>] :
             m \in ErrorMessages}

\* res = None, as every iteration of the loop starts
NoAnswer == [raised |-> FALSE, status |-> "", errorMessage |-> <<>>]

\* the test that takes every answer that is a status for SUCCESS
IsSuccess_any_status(a) == ~a.raised

\* the loop that takes no answer for a success
IsSuccess_never(a) == FALSE

\* is_success = True if res["task"]["status"] == "SUCCESS" else False, and
\* False when the query raised
IsSuccess(a) == ~a.raised /\ a.status = "SUCCESS"

\* the test that takes a canceled task for a failed one
IsFailed_or_canceled(a) == ~a.raised /\ a.status \in {"FAILED", "CANCELED"}

\* if res and res["task"]["status"] == "FAILED"
IsFailed(a) == ~a.raised /\ a.status = "FAILED"

\* entry: the report must exist; the task id is read from it; the deadline
TaskEnter ==
    /\ pc = "wait_task"
    /\ IF sonar_report = <<>>
       THEN /\ _raise_error("report_missing", "analyze")
            /\ UNCHANGED <<id, deadline, is_success, entry, polls, taskobs>>
       ELSE /\ id' = ReadTaskId(sonar_report)
            /\ report_line' = sonar_report[5]
            /\ reads' = reads + 1
            /\ queries' = {}
            /\ deadline' = Deadline
            /\ is_success' = FALSE
            /\ entry' = now
            /\ polls' = 0
            /\ pc' = "task_loop"
            /\ UNCHANGED <<proc, kills, abort_kill, outcome>>
    /\ UNCHANGED <<detail, config, endpoint, is_local_up, timeout, com_cmd, is_server_up,
                   is_project_created, cnt, sonar_report, res, reader, nlines,
                   now, last_status, first_up, flag_at_entry, last_code, codes,
                   polled_model, logobs>>

\* one iteration: sleep, the query, the FAILED classification, the deadline
TaskPoll ==
    /\ pc = "task_loop"
    /\ \E a \in TaskAnswers :
          LET t == now + sleep_second + latency
              success == IsSuccess(a)
              terminal == (~a.raised /\ a.status \in {"SUCCESS", "FAILED"})
          IN /\ now' = t
             /\ res' = IF terminal \/ deadline < t THEN a ELSE NoAnswer
             /\ is_success' = success
             /\ polls' = polls + 1
             /\ queries' = queries \cup {id}
             /\ IF IsFailed(a)
                THEN IF a.errorMessage = <<>>
                     THEN Propagate("KeyError", "errorMessage")
                     ELSE _raise_error(ClassifyFailed(a.errorMessage[1]), "analyze")
                ELSE IF deadline < t
                THEN _raise_error("task_timeout", "analyze")
                ELSE /\ pc' = IF success THEN "dump_measures" ELSE "task_loop"
                     /\ UNCHANGED <<proc, kills, abort_kill, outcome>>
    /\ UNCHANGED <<detail, config, endpoint, is_local_up, timeout, com_cmd, deadline,
                   is_server_up, is_project_created, cnt, sonar_report, id,
                   reader, nlines, entry, last_status, first_up, flag_at_entry, last_code, codes,
                   polled_model,
                   logobs, report_line, reads>>

\* ------------------------------------------------- scan_proj: last phases
\* _dump_measures: get_component_measures is an unguarded REST call
\* (scan_proj does not read sonar_report again)
DumpMeasures ==
    /\ pc = "dump_measures"
    /\ DirectCall("get_issues", "get_component_measures")
    /\ ForgetLocals
    /\ sonar_report' = <<>>

\* the issue loop: only ValidationError is caught around get_issues
GetIssues ==
    /\ pc = "get_issues"
    /\ \E code \in StatusCodes :
          IF _request(code) \in {"ok", "ValidationError"}
          THEN pc' = "reset_settings" /\ UNCHANGED <<proc, kills, abort_kill, outcome>>
          ELSE Propagate(_request(code), "get_issues")
    /\ UNCHANGED <<detail, config, endpoint, is_local_up, timeout, com_cmd, locals,
                   reader, nlines, now, waitobs, logobs, taskobs>>

\* set_settings back to SONAR_DEVCOST and SONAR_DEBT_RATINGGRID defaults
ResetSettings ==
    /\ pc = "reset_settings"
    /\ DirectCall("teardown", "set_settings")
    /\ UNCHANGED <<locals, waitobs, taskobs>>

\* the end of scan_proj: the test of self.model, then return
Teardown ==
    /\ pc = "teardown"
    /\ pc' = IF model = LOCAL_MODEL THEN "teardown_kill" ELSE "done"
    /\ UNCHANGED <<detail, config, endpoint, is_local_up, timeout, com_cmd, locals,
                   server, now, outcome, kills, abort_kill, waitobs,
                   logobs, taskobs>>

\* the end of scan_proj: _kill_sonar for the model found LOCAL, then return
TeardownKill ==
    /\ pc = "teardown_kill"
    /\ _kill_sonar
    /\ pc' = "done"
    /\ UNCHANGED <<detail, config, endpoint, is_local_up, timeout, com_cmd, locals,
                   reader, nlines, now, outcome, abort_kill, waitobs,
                   logobs, taskobs>>

\* _raise_error: _kill_sonar for the model found LOCAL, then the raise
RaiseKill ==
    /\ pc = "raise_kill"
    /\ _kill_sonar
    /\ abort_kill' = TRUE
    /\ pc' = "failed"
    /\ UNCHANGED <<detail, config, endpoint, is_local_up, timeout, com_cmd, locals,
                   reader, nlines, now, err, msg, failed_in, waitobs,
                   logobs, taskobs>>

Next ==
    \/ LinkCommon
    \/ StartLocal
    \/ do_callback
    \/ do_exit
    \/ WaitOnEnter
    \/ WaitOnLoop
    \/ WaitOnPoll
    \/ GetCommonCmds
    \/ ProjectCreateEnter
    \/ ProjectCreateTry
    \/ SetSettings
    \/ SetQualityProfiles
    \/ Scan
    \/ TaskEnter
    \/ TaskPoll
    \/ DumpMeasures
    \/ GetIssues
    \/ ResetSettings
    \/ Teardown
    \/ TeardownKill
    \/ RaiseKill

Spec == Init /\ [][Next]_vars

\* ---------------------------------- SQAPIHandler._request, on its own
\* the server has answered a request with some status code
InitRequest ==
    /\ InitRun
    /\ http_status \in MinStatus..MaxStatus
    /\ response = "none"
    /\ ProfilesIdle /\ SupervisorIdle /\ ExtractorIdle /\ LaterIdle

\* _request looks at res.status_code: it returns or raises
Request ==
    /\ response = "none"
    /\ response' = _request(http_status)
    /\ UNCHANGED <<run, http_status, profiles, supervisor, extractor, later>>

NextRequest == Request

SpecRequest == InitRequest /\ [][NextRequest]_vars

\* ------------------------------------- _set_qualityprofiles, on its own
COMMON_SONAR_LANGS ==
    {"cs", "java", "jsp", "vbnet", "css", "flex", "go", "js", "kotlin", "php",
     "py", "ruby", "scala", "ts", "web", "xml"}

\* a rule element of a profile document
Rule(repositoryKey, key) == [repositoryKey |-> repositoryKey, key |-> key]

\* real_name = "%s:%s" % (repositoryKey, key)
real_name(rule) == rule.repositoryKey \o ":" \o rule.key

R1 == Rule("squid", "S100")
R2 == Rule("squid", "S101")
R3 == Rule("squid", "S3776")
R4 == Rule("javascript", "S100")

\* a profile document: the name and language children of its root, and the
\* rule elements in document order
Profile(name, language, all_rules) ==
    [name |-> name, language |-> language, rules |-> all_rules]

\* a path: the directory and the file name, the name as the sequence of its
\* parts between underscores
Path(dir, name) == [dir |-> dir, name |-> name]

\* str.lower() on the parts of the file names in use
FileLower(part) ==
    CASE part = "SonarQube" -> "sonarqube"
      [] part = "Profile.xml" -> "profile.xml"
      [] part = "Js" -> "js"
      [] part = "Maven.xml" -> "maven.xml"
      [] OTHER -> part

\* name.lower().endswith("_" + suffix), the suffix given by its lowered parts
EndsWith(name, suffix) ==
    /\ Len(name) > Len(suffix)
    /\ \A i \in DOMAIN suffix :
          FileLower(name[Len(name) - Len(suffix) + i]) = suffix[i]

\* "_SonarQube_Profile.xml".lower()
DefaultSuffix == <<"sonarqube", "profile.xml">>

\* the profiles directory of the tool: three default documents (one for a
\* language SonarQube is not fed with) and one document of the build type
\* maven
ToolDir == "tools/profiles"
WorkDir == "workdir/profiles"
SourceDir == "source"

ToolFiles ==
    (Path(ToolDir, <<"java", "SonarQube", "Profile.xml">>)
        :> Profile("TCA java", "java", <<R1, R2, R3>>))
    @@ (Path(ToolDir, <<"Js", "SonarQube", "Profile.xml">>)
        :> Profile("TCA js", "js", <<R4>>))
    @@ (Path(ToolDir, <<"cobol", "SonarQube", "Profile.xml">>)
        :> Profile("TCA cobol", "cobol", <<R1>>))
    @@ (Path(ToolDir, <<"java", "Maven.xml">>)
        :> Profile("TCA java maven", "java", <<R2, R3>>))

\* documents a project may keep in its source directory
SourceFiles ==
    (Path(SourceDir, <<"team.xml">>)
        :> Profile("team java", "java", <<R3, R1>>))
    @@ (Path(SourceDir, <<"team", "SonarQube", "Profile.xml">>)
        :> Profile("team js", "js", <<R4, R1>>))

\* names SONAR_QUALITYPROFILE may list: the two above and one of no file
OverrideNames ==
    {<<"team.xml">>, <<"team", "SonarQube", "Profile.xml">>, <<"gone.xml">>}

\* Element.remove(e): the child that is e goes, the others keep their order
RECURSIVE remove(_, _)
remove(children, e) ==
    IF children = <<>> THEN <<>>
    ELSE IF Head(children) = e THEN Tail(children)
    ELSE <<Head(children)>> \o remove(Tail(children), e)

\* for rule in removed_rules: all_rules.remove(rule)
RECURSIVE remove_each(_, _)
remove_each(children, removed_rules) ==
    IF removed_rules = <<>> THEN children
    ELSE remove_each(remove(children, Head(removed_rules)), Tail(removed_rules))

\* the rule elements of a document, each with its identity
Elements(all_rules) == [i \in DOMAIN all_rules |-> <<i, all_rules[i]>>]

\* the filter that removes each rule the moment the loop meets it: the
\* iteration then passes over the element that moved into its place
RECURSIVE remove_while_iterating(_, _, _)
remove_while_iterating(children, i, allowed) ==
    IF i > Len(children) THEN children
    ELSE IF real_name(children[i][2]) \notin allowed
         THEN remove_while_iterating(remove(children, children[i]), i + 1, allowed)
         ELSE remove_while_iterating(children, i + 1, allowed)

FilterRules_while_iterating(all_rules, allowed) ==
    LET kept == remove_while_iterating(Elements(all_rules), 1, allowed)
    IN [i \in DOMAIN kept |-> kept[i][2]]

\* the filter that removes nothing
FilterRules_keeps_all(all_rules, allowed) == all_rules

\* the rule loop of _set_qualityprofiles: the rules whose real_name is not in
\* params["rules"] are collected, then removed from the document
FilterRules(all_rules, allowed) ==
    LET elements == Elements(all_rules)
        removed_rules == SelectSeq(elements, LAMBDA e : real_name(e[2]) \notin allowed)
        kept == remove_each(elements, removed_rules)
    IN [i \in DOMAIN kept |-> kept[i][2]]

\* a dict as the sequence of its items, in insertion order: d[k] = v
DictSet(d, k, v) ==
    IF \E i \in DOMAIN d : d[i][1] = k
    THEN [i \in DOMAIN d |-> IF d[i][1] = k THEN <<k, v>> ELSE d[i]]
    ELSE Append(d, <<k, v>>)

\* shutil.copyfile(src, dst) on the files fs
copyfile(fs, src, dst) ==
    [f \in DOMAIN fs \cup {dst} |-> IF f = dst THEN fs[src] ELSE fs[f]]

\* get_dir_files(root_dir, want_suffix) on the files fs
get_dir_files(fs, root_dir, want_suffix) ==
    {f \in DOMAIN fs : f.dir = root_dir /\ EndsWith(f.name, want_suffix)}

\* list(files): the files of a set in some order
Orders(S) ==
    {o \in [1..Cardinality(S) -> S] : \A i, j \in DOMAIN o : o[i] = o[j] => i = j}

\* the loop over the default documents: acc holds the dict d and the files fs
RECURSIVE GatherDefault(_, _)
GatherDefault(acc, default_profiles) ==
    IF default_profiles = <<>> THEN acc
    ELSE LET profile == Head(default_profiles)
             lang == FileLower(profile.name[1])
             profile_path == Path(WorkDir, profile.name)
         IN IF lang \notin COMMON_SONAR_LANGS
            THEN GatherDefault(acc, Tail(default_profiles))
            ELSE GatherDefault([acc EXCEPT !.d = DictSet(acc.d, lang, profile_path),
                                           !.fs = copyfile(acc.fs, profile, profile_path)],
                               Tail(default_profiles))

\* the loop over the documents of the build type that takes every language
RECURSIVE GatherType_any_language(_, _, _)
GatherType_any_language(acc, paths, langs) ==
    IF paths = <<>> THEN acc
    ELSE LET info == acc.fs[Head(paths)]
             profile_path == Path(WorkDir, Head(paths).name)
         IN GatherType_any_language(
               [acc EXCEPT !.d = DictSet(acc.d, info.language, profile_path),
                           !.fs = copyfile(acc.fs, Head(paths), profile_path)],
               Tail(paths), langs)

\* the loop over the documents of the build type SONAR_QUALITYPROFILE_TYPE
RECURSIVE GatherType(_, _, _)
GatherType(acc, paths, langs) ==
    IF paths = <<>> THEN acc
    ELSE LET path == Head(paths)
             info == acc.fs[path]
             profile_path == Path(WorkDir, path.name)
         IN IF info.language \notin langs
            THEN GatherType(acc, Tail(paths), langs)
            ELSE GatherType([acc EXCEPT !.d = DictSet(acc.d, info.language, profile_path),
                                        !.fs = copyfile(acc.fs, path, profile_path)],
                            Tail(paths), langs)

\* the override loop that passes over a name of no file
RECURSIVE GatherOverride_skips_missing(_, _, _)
GatherOverride_skips_missing(acc, names, langs) ==
    IF names = <<>> THEN acc
    ELSE LET profile_path == Path(SourceDir, Head(names))
         IN IF profile_path \notin DOMAIN acc.fs
            THEN GatherOverride_skips_missing(acc, Tail(names), langs)
            ELSE IF acc.fs[profile_path].language \notin langs
            THEN GatherOverride_skips_missing(acc, Tail(names), langs)
            ELSE GatherOverride_skips_missing(
                    [acc EXCEPT !.d = DictSet(acc.d, acc.fs[profile_path].language,
                                              profile_path)],
                    Tail(names), langs)

\* the loop over the names of SONAR_QUALITYPROFILE: it ends at the first name
\* of no file, which _raise_error reports
RECURSIVE GatherOverride(_, _, _)
GatherOverride(acc, names, langs) ==
    IF names = <<>> THEN acc
    ELSE LET profile_path == Path(SourceDir, Head(names))
         IN IF profile_path \notin DOMAIN acc.fs
            THEN [acc EXCEPT !.missing = TRUE]
            ELSE IF acc.fs[profile_path].language \notin langs
            THEN GatherOverride(acc, Tail(names), langs)
            ELSE GatherOverride(
                    [acc EXCEPT !.d = DictSet(acc.d, acc.fs[profile_path].language,
                                              profile_path)],
                    Tail(names), langs)

\* f"_{SONAR_QUALITYPROFILE_TYPE}.xml".lower()
TypeSuffix == <<FileLower(SONAR_QUALITYPROFILE_TYPE[1] \o ".xml")>>

\* the dict with the default documents placed after the overrides
Candidates_defaults_last(default_profiles, type_profiles) ==
    LET a0 == [d |-> <<>>, fs |-> files, missing |-> FALSE]
        a1 == IF SONAR_QUALITYPROFILE_TYPE # <<>>
              THEN GatherType(a0, type_profiles, languages) ELSE a0
        a2 == IF SONAR_QUALITYPROFILE # <<>>
              THEN GatherOverride(a1, SONAR_QUALITYPROFILE, languages) ELSE a1
    IN IF a2.missing THEN a2 ELSE GatherDefault(a2, default_profiles)

\* qualityprofile_filepaths as the three loops leave it
Candidates(default_profiles, type_profiles) ==
    LET a1 == GatherDefault([d |-> <<>>, fs |-> files, missing |-> FALSE],
                            default_profiles)
        a2 == IF SONAR_QUALITYPROFILE_TYPE # <<>>
              THEN GatherType(a1, type_profiles, languages) ELSE a1
    IN IF SONAR_QUALITYPROFILE # <<>>
       THEN GatherOverride(a2, SONAR_QUALITYPROFILE, languages) ELSE a2

\* _set_qualityprofiles up to the rule filter: the dict is built, or a name
\* of no file in SONAR_QUALITYPROFILE ends the call through _raise_error
GatherProfiles ==
    /\ pc = "set_qualityprofiles" /\ step = "gather"
    /\ \E default_profiles \in Orders(get_dir_files(files, ToolDir, DefaultSuffix)),
          type_profiles \in Orders(IF SONAR_QUALITYPROFILE_TYPE = <<>> THEN {}
                                   ELSE get_dir_files(files, ToolDir, TypeSuffix)) :
          LET acc == Candidates(default_profiles, type_profiles)
          IN /\ files' = acc.fs
             /\ qualityprofile_filepaths' = acc.d
             /\ IF acc.missing
                THEN /\ _raise_error("qualityprofile_missing", "config")
                     /\ step' = "raised"
                ELSE /\ step' = "filter"
                     /\ UNCHANGED <<pc, outcome, proc, kills, abort_kill>>
    /\ UNCHANGED <<transport, supervisor, extractor, later, languages, rules,
                   SONAR_QUALITYPROFILE_TYPE,
                   SONAR_QUALITYPROFILE, restored, config, endpoint, is_local_up,
                   timeout, com_cmd, locals, reader, nlines, now, waitobs,
                   logobs, taskobs>>

\* the rule filter of _set_qualityprofiles: each document of the dict whose
\* path ends with _SonarQube_Profile.xml is rewritten without the rules that
\* params["rules"] does not name; the other documents are passed over
FilterProfiles ==
    /\ pc = "set_qualityprofiles" /\ step = "filter"
    /\ files' = [f \in DOMAIN files |->
                    IF /\ \E i \in DOMAIN qualityprofile_filepaths :
                             qualityprofile_filepaths[i][2] = f
                       /\ EndsWith(f.name, DefaultSuffix)
                    THEN [files[f] EXCEPT !.rules = FilterRules(@, rules)]
                    ELSE files[f]]
    /\ step' = "publish"
    /\ UNCHANGED <<run, transport, supervisor, extractor, later, languages, rules,
                   SONAR_QUALITYPROFILE_TYPE,
                   SONAR_QUALITYPROFILE, qualityprofile_filepaths, restored>>

\* the publishing loop, one language of the dict: qualityprofiles_restore
\* sends the document at the path, qualityprofiles_add_project associates it;
\* a call the server refuses raises and nothing catches it
PublishProfile ==
    /\ pc = "set_qualityprofiles" /\ step = "publish"
    /\ Len(restored) < Len(qualityprofile_filepaths)
    /\ LET path == qualityprofile_filepaths[Len(restored) + 1][2]
           info == [lang |-> files[path].language, name |-> files[path].name]
       IN \E restore_code, add_code \in StatusCodes :
             IF _request(restore_code) # "ok"
             THEN /\ Propagate(_request(restore_code), "qualityprofiles_restore")
                  /\ step' = "raised"
                  /\ UNCHANGED restored
             ELSE /\ restored' = Append(restored,
                                        [path |-> path, document |-> files[path],
                                         language |-> info.lang,
                                         qualityProfile |-> info.name,
                                         associated |-> _request(add_code) = "ok"])
                  /\ IF _request(add_code) # "ok"
                     THEN /\ Propagate(_request(add_code), "qualityprofiles_add_project")
                          /\ step' = "raised"
                     ELSE UNCHANGED <<pc, outcome, proc, kills, abort_kill, step>>
    /\ UNCHANGED <<transport, supervisor, extractor, later, languages, rules,
                   SONAR_QUALITYPROFILE_TYPE,
                   SONAR_QUALITYPROFILE, files, qualityprofile_filepaths, config,
                   endpoint, is_local_up, timeout, com_cmd, locals, reader, nlines,
                   now, waitobs, logobs, taskobs>>

\* _set_qualityprofiles returns: scan_proj goes on to the scan
ProfilesReturn ==
    /\ pc = "set_qualityprofiles" /\ step = "publish"
    /\ Len(restored) = Len(qualityprofile_filepaths)
    /\ pc' = "scan"
    /\ step' = "returned"
    /\ UNCHANGED <<transport, supervisor, extractor, later, languages, rules,
                   SONAR_QUALITYPROFILE_TYPE,
                   SONAR_QUALITYPROFILE, files, qualityprofile_filepaths, restored,
                   config, endpoint, is_local_up, timeout, com_cmd, locals, server,
                   now, outcome, kills, abort_kill, waitobs, logobs, taskobs>>

\* scan_proj where it calls _set_qualityprofiles, with its own server running
AtSetQualityProfilesLocal ==
    /\ SQ_TYPE = COMMON_MODEL /\ SQ_COMMON_USER = None /\ platform = "win32"
    /\ model = LOCAL_MODEL
    /\ base_url = SQ_LOCAL_USER.url
    /\ port = SQ_LOCAL_USER.port
    /\ base_path = SQ_LOCAL_USER.base_path
    /\ user = SQ_LOCAL_USER.username
    /\ password = SQ_LOCAL_USER.password
    /\ projectKey = SQ_LOCAL_USER.projectKey
    /\ sonar_handle = LocalHandle
    /\ proc = "running" /\ reader = "reading" /\ kills = 1
    /\ now = sleep_second

\* scan_proj where it calls _set_qualityprofiles, linked to the shared server
AtSetQualityProfilesCommon ==
    /\ SQ_TYPE = COMMON_MODEL /\ SQ_COMMON_USER = CommonUser /\ platform = "linux"
    /\ model = COMMON_MODEL
    /\ base_url = SQ_COMMON_USER.url
    /\ port = SQ_COMMON_USER.port
    /\ base_path = SQ_COMMON_USER.base_path
    /\ user = SQ_COMMON_USER.username
    /\ password = SQ_COMMON_USER.password
    /\ projectKey = SQ_COMMON_USER.projectKey \o "_" \o project_id
    /\ sonar_handle = SQAPIHandler(SQ_COMMON_USER.url, SQ_COMMON_USER.port,
                                   SQ_COMMON_USER.base_path,
                                   <<SQ_COMMON_USER.username, "">>)
    /\ proc = "none" /\ reader = "none" /\ kills = 0
    /\ now = sleep_second

\* the states in which scan_proj calls _set_qualityprofiles, and the inputs
\* of the call: the requested languages, params["rules"], the two environment
\* variables and the documents present in the profiles directory of the tool
InitProfiles ==
    /\ SONAR_TIMEOUT = <<30>>
    /\ project_id \in ProjectIds
    /\ latency = 0
    /\ AtSetQualityProfilesLocal \/ AtSetQualityProfilesCommon
    /\ is_local_up = TRUE
    /\ timeout = SONAR_TIMEOUT[1]
    /\ com_cmd = _get_common_cmds
    /\ pc = "set_qualityprofiles"
    /\ deadline = 0
    /\ is_server_up = FALSE
    /\ is_project_created = FALSE
    /\ cnt = 0
    /\ sonar_report = <<>>
    /\ is_success = FALSE
    /\ id = <<>>
    /\ res = NoAnswer
    /\ nlines = 0
    /\ err = "none"
    /\ msg = "none"
    /\ failed_in = "none"
    /\ abort_kill = FALSE
    /\ entry = 0
    /\ polls = 0
    /\ last_status = "none"
    /\ first_up = 0
    /\ flag_at_entry = FALSE
    /\ last_code = 0
    /\ codes = {}
    /\ polled_model = "none"
    /\ marker_seen = FALSE
    /\ fatal_at = 0
    /\ report_line = <<>>
    /\ reads = 0
    /\ queries = {}
    /\ TransportIdle /\ SupervisorIdle /\ ExtractorIdle /\ LaterIdle
    /\ languages \in SUBSET {"java", "js"}
    /\ rules \in SUBSET {real_name(R1), real_name(R2), real_name(R3), real_name(R4)}
    /\ SONAR_QUALITYPROFILE_TYPE \in {<<>>, <<"Maven">>}
    /\ SONAR_QUALITYPROFILE \in
          UNION {[1..n -> OverrideNames] : n \in 0..MaxOverrides}
    /\ \E present \in SUBSET DOMAIN ToolFiles :
          files = [f \in present \cup DOMAIN SourceFiles |->
                      IF f \in present THEN ToolFiles[f] ELSE SourceFiles[f]]
    /\ qualityprofile_filepaths = <<>>
    /\ restored = <<>>
    /\ step = "gather"

NextProfiles ==
    \/ GatherProfiles
    \/ FilterProfiles
    \/ PublishProfile
    \/ ProfilesReturn
    \/ RaiseKill

SpecProfiles == InitProfiles /\ [][NextProfiles]_vars

\* ------------------------------------------- run_cmd and Process, on their own
\* lines a scanner writes to its stderr, each the sequence of its parts
NoFilesLine ==
    <<"ERROR", "java.lang.IllegalStateException: No files nor directories matching", "'bin'">>

UnreadableLine ==
    <<"ERROR", "java.lang.IllegalStateException: Unable to read file", "a.java">>

OutputLines == {<<"INFO: Sensor JavaSensor">>, NoFilesLine, UnreadableLine}

\* __handle: the err_type of the _raise_error call the line leads to
handle_raises(line) ==
    IF Find(line, "java.lang.IllegalStateException: No files nor directories matching")
    THEN "analyze"
    ELSE IF Find(line, "java.lang.IllegalStateException: Unable to read file")
    THEN "config"
    ELSE "none"

\* _raise_error called by __handle on the reader thread: the kill under
\* LOCAL, then the exception, which ends the thread that raised it
raise_on_reader(err_type) ==
    /\ IF model = LOCAL_MODEL THEN _kill_sonar ELSE UNCHANGED <<proc, kills>>
    /\ thread_err' = IF err_type = "config" THEN "ConfigError" ELSE "AnalyzeTaskError"
    /\ do_pc' = "dead"

\* the chunks handed to the callback, as the lines they hold
RECURSIVE Lines(_)
Lines(chunks) ==
    IF chunks = <<>> THEN <<>> ELSE Head(chunks).data \o Lines(Tail(chunks))

\* Process.__init__ in run_cmd: the child is started and the reader thread of
\* its stderr with the callback __handle
Spawn ==
    /\ pc = "scan" /\ wait_pc = "spawn"
    /\ child' = "running"
    /\ do_pc' = "poll"
    /\ wait_pc' = "wait"
    /\ UNCHANGED <<run, transport, profiles, extractor, later, cmd_type, returncode, pipe,
                   nread, delivered, thread_err>>

\* the child writes a line to its stderr
ChildWrite ==
    /\ child = "running"
    /\ Len(pipe) < MaxOutput
    /\ \E line \in OutputLines : pipe' = Append(pipe, line)
    /\ UNCHANGED <<run, transport, profiles, extractor, later, cmd_type, child, returncode,
                   nread, delivered, do_pc, thread_err, wait_pc>>

\* the child exits
ChildExit ==
    /\ child = "running"
    /\ child' = "exited"
    /\ returncode' \in {0, 1}
    /\ UNCHANGED <<run, transport, profiles, extractor, later, cmd_type, pipe, nread,
                   delivered, do_pc, thread_err, wait_pc>>

\* Process.do, the loop test: while self.p.poll() is None
do_poll ==
    /\ do_pc = "poll"
    /\ do_pc' = IF child = "running" THEN "readline" ELSE "read"
    /\ UNCHANGED <<run, transport, profiles, extractor, later, cmd_type, child, returncode,
                   pipe, nread, delivered, thread_err, wait_pc>>

\* Process.do, the loop body: readline blocks until a line or the end of the
\* stream; a line is decoded and handed to the callback, which may raise
do_readline ==
    /\ do_pc = "readline"
    /\ nread < Len(pipe) \/ child = "exited"
    /\ IF nread < Len(pipe)
       THEN LET out == pipe[nread + 1]
            IN /\ nread' = nread + 1
               /\ delivered' = Append(delivered, [data |-> <<out>>, decoded |-> TRUE])
               /\ IF handle_raises(out) # "none"
                  THEN raise_on_reader(handle_raises(out))
                  ELSE /\ do_pc' = "poll"
                       /\ UNCHANGED <<proc, kills, thread_err>>
       ELSE /\ do_pc' = "poll"
            /\ UNCHANGED <<nread, delivered, proc, kills, thread_err>>
    /\ UNCHANGED <<transport, profiles, extractor, later, cmd_type, child, returncode, pipe,
                   wait_pc, config, endpoint, is_local_up, timeout, com_cmd, pc,
                   locals, reader, nlines, now, outcome, abort_kill, waitobs,
                   logobs, taskobs>>

\* Process.do after the loop: what is left in the pipe is read at once and
\* handed to the callback as the bytes it is; __handle prints it and fails in
\* bytes.find(str) with TypeError
do_read ==
    /\ do_pc = "read"
    /\ nread' = Len(pipe)
    /\ IF nread < Len(pipe)
       THEN /\ delivered' = Append(delivered,
                                   [data |-> SubSeq(pipe, nread + 1, Len(pipe)),
                                    decoded |-> FALSE])
            /\ thread_err' = "TypeError"
            /\ do_pc' = "dead"
       ELSE /\ do_pc' = "done"
            /\ UNCHANGED <<delivered, thread_err>>
    /\ UNCHANGED <<run, transport, profiles, extractor, later, cmd_type, child, returncode,
                   pipe, wait_pc>>

\* Process.wait: self.p.wait() returns once the child has exited
wait ==
    /\ wait_pc = "wait"
    /\ child = "exited"
    /\ wait_pc' = "check"
    /\ UNCHANGED <<run, transport, profiles, extractor, later, cmd_type, child, returncode,
                   pipe, nread, delivered, do_pc, thread_err>>

\* run_cmd after p.wait(): a return code other than 0 raises through
\* _raise_error when cmd_type is compile or analyze; else run_cmd returns and
\* scan_proj goes on to the task
run_cmd ==
    /\ pc = "scan" /\ wait_pc = "check"
    /\ IF returncode # 0 /\ cmd_type \in {"compile", "analyze"}
       THEN /\ _raise_error(IF cmd_type = "compile" THEN "compile_failed"
                            ELSE "scan_failed", cmd_type)
            /\ wait_pc' = "raised"
       ELSE /\ pc' = "wait_task"
            /\ wait_pc' = "returned"
            /\ UNCHANGED <<outcome, proc, kills, abort_kill>>
    /\ UNCHANGED <<transport, profiles, extractor, later, cmd_type, child, returncode, pipe,
                   nread, delivered, do_pc, thread_err, config, endpoint,
                   is_local_up, timeout, com_cmd, locals, reader, nlines, now,
                   waitobs, logobs, taskobs>>

\* scan_proj where the scan function calls run_cmd, and the cmd_type of the
\* call
InitProcess ==
    /\ SONAR_TIMEOUT = <<30>>
    /\ project_id \in ProjectIds
    /\ latency = 0
    /\ AtSetQualityProfilesLocal \/ AtSetQualityProfilesCommon
    /\ is_local_up = TRUE
    /\ timeout = SONAR_TIMEOUT[1]
    /\ com_cmd = _get_common_cmds
    /\ pc = "scan"
    /\ deadline = 0
    /\ is_server_up = FALSE
    /\ is_project_created = FALSE
    /\ cnt = 0
    /\ sonar_report = <<>>
    /\ is_success = FALSE
    /\ id = <<>>
    /\ res = NoAnswer
    /\ nlines = 0
    /\ err = "none"
    /\ msg = "none"
    /\ failed_in = "none"
    /\ abort_kill = FALSE
    /\ entry = 0
    /\ polls = 0
    /\ last_status = "none"
    /\ first_up = 0
    /\ flag_at_entry = FALSE
    /\ last_code = 0
    /\ codes = {}
    /\ polled_model = "none"
    /\ marker_seen = FALSE
    /\ fatal_at = 0
    /\ report_line = <<>>
    /\ reads = 0
    /\ queries = {}
    /\ TransportIdle /\ ProfilesIdle /\ ExtractorIdle /\ LaterIdle
    /\ cmd_type \in {"none", "compile", "analyze"}
    /\ child = "none"
    /\ returncode = 0
    /\ pipe = <<>>
    /\ nread = 0
    /\ delivered = <<>>
    /\ do_pc = "none"
    /\ thread_err = "none"
    /\ wait_pc = "spawn"

NextProcess ==
    \/ Spawn
    \/ ChildWrite
    \/ ChildExit
    \/ do_poll
    \/ do_readline
    \/ do_read
    \/ wait
    \/ run_cmd
    \/ RaiseKill

SpecProcess == InitProcess /\ [][NextProcess]_vars

\* ------------------------------------- the path of a finding, on its own
\* paths are sequences of characters
PathChars == {"/", "s", "a"}

Strings(n) == UNION {[1..k -> PathChars] : k \in 1..n}

\* values of SOURCE_DIR: a directory, the same with a trailing separator, and
\* a directory below it
SourceDirs == {<<"/", "s">>, <<"/", "s", "/">>, <<"/", "s", "/", "a">>}

\* os.path.join(a, b) of posixpath: an absolute b replaces a, else b follows a
\* and the separator a does not already end with
join(a, b) ==
    IF b # <<>> /\ b[1] = "/" THEN b
    ELSE IF a = <<>> \/ a[Len(a)] = "/" THEN a \o b
    ELSE a \o <<"/">> \o b

\* s[pos:]
Slice(s, pos) == SubSeq(s, pos + 1, Len(s))

\* build_cwd of scan_proj: BUILD_CWD joined to SOURCE_DIR when it is set and
\* not empty
build_cwd == IF BUILD_CWD # <<>> THEN join(SOURCE_DIR, BUILD_CWD) ELSE SOURCE_DIR

\* the file a component names: os.path.join(build_cwd, component.split(":")[-1])
ComponentFile == join(build_cwd, split_last(component, ":"))

\* the issue loop of scan_proj, the path of one issue
IssuePath ==
    /\ finding_path = <<>>
    /\ LET pos == Len(SOURCE_DIR) + 1
       IN finding_path' = <<Slice(ComponentFile, pos)>>
    /\ UNCHANGED <<run, transport, profiles, supervisor, later, SOURCE_DIR, BUILD_CWD,
                   component>>

\* the environment of the run and the component of one issue
InitFinding ==
    /\ InitRun
    /\ TransportIdle /\ ProfilesIdle /\ SupervisorIdle /\ LaterIdle
    /\ SOURCE_DIR \in SourceDirs
    /\ BUILD_CWD \in {<<>>} \cup Strings(MaxBuildCwd)
    /\ component \in {<<"p", ":">> \o rel : rel \in Strings(MaxComponent)}
    /\ finding_path = <<>>

NextFinding == IssuePath

SpecFinding == InitFinding /\ [][NextFinding]_vars

\* ------------------------------- the issue loop of scan_proj, on its own
\* the rule of the duplication issues: its key ends with DuplicatedBlocks
RDup == Rule("common-java", "DuplicatedBlocks")

\* rule.endswith("DuplicatedBlocks"), on the rules in use
IsDuplicatedBlocks(rule) == rule.key = "DuplicatedBlocks"

\* blocks of a duplication: first line, number of lines, the file by its ref
Blocks ==
    {[from |-> 1, size |-> 5, _ref |-> "1"],
     [from |-> 10, size |-> 1, _ref |-> "2"],
     [from |-> 7, size |-> 3, _ref |-> "1"]}

\* the files of an answer of duplications_show, by ref
DuplFiles == ("1" :> [name |-> "A.java"]) @@ ("2" :> [name |-> "B.java"])

\* answers of duplications_show: the duplications, each with its blocks (the
\* answer without the key duplications reads as the one with none)
DuplAnswers ==
    {[duplications |-> ds, files |-> DuplFiles] :
        ds \in UNION {[1..n -> {[blocks |-> bs] :
                                   bs \in UNION {[1..m -> Blocks] : m \in 1..MaxBlocks}}] :
                         n \in 0..MaxDuplications}}

\* the location of a flow of an issue
FlowLocation ==
    [textRange |-> [startLine |-> 8, startOffset |-> 2], msg |-> <<"there">>,
     component |-> <<"p", ":", "b">>]

\* the issues get_issues yields: a duplication issue and an issue of another
\* rule, with and without a text range, with and without a flow
Issues ==
    {[rule |-> r, message |-> "m", textRange |-> tr, flows |-> fl] :
        r \in {RDup, R1},
        tr \in {<<>>, <<[startLine |-> 3, startOffset |-> 4]>>},
        fl \in {<<>>, <<[locations |-> <<FlowLocation>>]>>}}

\* the reference of a block with the last line one too far
DuplRef_end_exclusive(answer, block) ==
    [line |-> block.from, column |-> 0,
     msg |-> <<"duplicated block", block.from, block.from + block.size>>,
     tag |-> <<>>, path |-> answer.files[block._ref].name]

\* the reference made of a block of a duplication
DuplRef(answer, block) ==
    [line |-> block.from, column |-> 0,
     msg |-> <<"duplicated block", block.from, block.from + block.size - 1>>,
     tag |-> <<>>, path |-> answer.files[block._ref].name]

\* the reference made of a location of a flow
FlowRef(location) ==
    [line |-> location.textRange.startLine,
     column |-> location.textRange.startOffset,
     msg |-> location.msg, tag |-> <<>>,
     path |-> split_last(location.component, ":")]

\* the references of the flows of an issue, each flow with one location
FlowRefs(flows) == [k \in DOMAIN flows |-> FlowRef(flows[k].locations[1])]

\* the entry appended to issues
Finding(it, refs) ==
    [path |-> Slice(ComponentFile, Len(SOURCE_DIR) + 1),
     rule |-> it.rule, msg |-> it.message,
     line |-> IF it.textRange # <<>> THEN it.textRange[1].startLine ELSE 0,
     column |-> IF it.textRange # <<>> THEN it.textRange[1].startOffset ELSE 0,
     refs |-> refs]

\* the findings of a duplication issue: one for each duplication of the
\* answer, with one reference for each block of that duplication
DuplFindings(it, answer) ==
    [k \in DOMAIN answer.duplications |->
        Finding(it, [j \in DOMAIN answer.duplications[k].blocks |->
                        DuplRef(answer, answer.duplications[k].blocks[j])])]

\* the loop body without the rule filter
Skipped_never(it) == FALSE

\* the rule filter at the head of the loop body
Skipped(it) == ~is_quality /\ rules # {} /\ real_name(it.rule) \notin rules

\* the body of the issue loop for a duplication issue: duplications_show is
\* called and answered
DuplicationIssue ==
    /\ issue # <<>> /\ issues = <<>> /\ dupl_blocks = <<>>
    /\ ~Skipped(issue[1]) /\ IsDuplicatedBlocks(issue[1].rule)
    /\ \E answer \in DuplAnswers :
          /\ dupl_blocks' = <<answer>>
          /\ issues' = issues \o DuplFindings(issue[1], answer)
    /\ UNCHANGED <<run, transport, profiles, supervisor, extractor, final, paging,
                   builder, issue, is_quality, query_rules>>

\* the body of the issue loop for an issue of any other rule
OtherIssue ==
    /\ issue # <<>> /\ issues = <<>>
    /\ ~Skipped(issue[1]) /\ ~IsDuplicatedBlocks(issue[1].rule)
    /\ issues' = Append(issues, Finding(issue[1], FlowRefs(issue[1].flows)))
    /\ UNCHANGED <<run, transport, profiles, supervisor, extractor, final, paging,
                   builder, issue, is_quality, query_rules,
                   dupl_blocks>>

\* the object after construction, the environment, and one issue that
\* get_issues yields
InitIssues ==
    /\ InitRun
    /\ SQ_TYPE = "" /\ SQ_COMMON_USER = None /\ platform = "linux"
    /\ SONAR_TIMEOUT = <<30>> /\ latency = 0
    /\ TransportIdle /\ SupervisorIdle
    /\ languages = {}
    /\ rules \in {{}, {real_name(R1)}, {real_name(R1), real_name(RDup)}}
    /\ SONAR_QUALITYPROFILE_TYPE \in {<<>>, <<"Maven">>}
    /\ SONAR_QUALITYPROFILE \in {<<>>, << <<"team.xml">> >>}
    /\ files = <<>>
    /\ qualityprofile_filepaths = <<>>
    /\ restored = <<>>
    /\ step = "idle"
    /\ SOURCE_DIR = <<"/", "s">>
    /\ BUILD_CWD \in {<<>>, <<"a">>}
    /\ component = <<"p", ":", "a">>
    /\ finding_path = <<>>
    /\ issue \in {<<it>> : it \in Issues}
    /\ is_quality = (SONAR_QUALITYPROFILE # <<>> \/ SONAR_QUALITYPROFILE_TYPE # <<>>)
    /\ query_rules = (IF is_quality THEN <<>> ELSE <<rules>>)
    /\ dupl_blocks = <<>>
    /\ issues = <<>>
    /\ PagingIdle /\ BuilderIdle /\ FinalIdle

NextIssues ==
    \/ DuplicationIssue
    \/ OtherIssue

SpecIssues == InitIssues /\ [][NextIssues]_vars

\* ------------------------------- SQAPIHandler.get_issues, on its own
\* the server's answer to /api/issues/search for page p: the issues are
\* numbered 1..total in the server's order, ps to a page
Page(p) ==
    [k \in 1..(IF p * ps <= total THEN ps
               ELSE IF (p - 1) * ps < total THEN total - (p - 1) * ps
               ELSE 0) |-> (p - 1) * ps + k]

\* the loop test with <= for <
MorePages_inclusive(pn, psz, n) == pn * psz <= n

\* the test of the while loop of get_issues
MorePages(pn, psz, n) == pn * psz < n

\* the page a request asks for: params["p"], page 1 for the server when the
\* key is not there
AskedPage == IF params_p = <<>> THEN 1 ELSE params_p[1]

\* one pass of the loop: the request is answered, the locals are taken from
\* the answer, params["p"] is set and the issues of the page are yielded
GetIssuesPage ==
    /\ gen_pc = "loop"
    /\ MorePages(page_num, page_size, n_issues)
    /\ requested' = Append(requested, AskedPage)
    /\ page_num' = AskedPage
    /\ page_size' = ps
    /\ n_issues' = total
    /\ params_p' = <<AskedPage + 1>>
    /\ yielded' = yielded \o Page(AskedPage)
    /\ UNCHANGED <<run, transport, profiles, supervisor, extractor, final, extraction,
                   builder, total, ps, gen_pc>>

\* one pass of the loop in which _request raises: the exception leaves the
\* generator
GetIssuesRaise ==
    /\ gen_pc = "loop"
    /\ MorePages(page_num, page_size, n_issues)
    /\ requested' = Append(requested, AskedPage)
    /\ gen_pc' = "raised"
    /\ UNCHANGED <<run, transport, profiles, supervisor, extractor, final, extraction,
                   builder, total, ps, page_num, page_size, n_issues, params_p,
                   yielded>>

\* the loop test fails: the generator is exhausted
GetIssuesReturn ==
    /\ gen_pc = "loop"
    /\ ~MorePages(page_num, page_size, n_issues)
    /\ gen_pc' = "done"
    /\ UNCHANGED <<run, transport, profiles, supervisor, extractor, final, extraction,
                   builder, total, ps, page_num, page_size, n_issues, params_p,
                   requested, yielded>>

\* get_issues before its loop, and the server: its issues and its page size
InitGetIssues ==
    /\ InitRun
    /\ SQ_TYPE = "" /\ SQ_COMMON_USER = None /\ platform = "linux"
    /\ SONAR_TIMEOUT = <<30>> /\ latency = 0
    /\ TransportIdle /\ ProfilesIdle /\ SupervisorIdle /\ ExtractorIdle
    /\ ExtractionIdle /\ BuilderIdle /\ FinalIdle
    /\ total \in 0..MaxTotal
    /\ ps \in 1..MaxPageSize
    /\ page_num = 1
    /\ page_size = 1
    /\ n_issues = 2
    /\ params_p = <<>>
    /\ requested = <<>>
    /\ yielded = <<>>
    /\ gen_pc = "loop"

NextGetIssues ==
    \/ GetIssuesPage
    \/ GetIssuesRaise
    \/ GetIssuesReturn

\* the for loop of scan_proj takes the next issue as long as there is one
SpecGetIssues ==
    InitGetIssues /\ [][NextGetIssues]_vars /\ WF_vars(NextGetIssues)

\* ------------------------------- the scan functions, on their own
\* values of SONAR_BUILD_TYPE as sq_java.py hands them over (lower case): the
\* ones scan_java_proj knows and one it does not
BuildTypes == {"any", "no_build", "gradle", "maven", "mvn", "ant", "make"}

\* the build command of the task parameters: none, or one
BuildCmds == {<<>>, <<"make">>}

\* the outcome of a command whose child could not be started: p.p is None
NotStarted == -1

\* the outcomes of a command: return code 0, return code 1, and the child
\* that could not be started
Outcomes == {0, 1, NotStarted}

\* the scan functions in which only gradle asks for a build command
NeedsBuildCmd_gradle_only(fun, type) ==
    fun = "scan_java_proj" /\ type = "gradle"

\* the scan functions and build types that raise when there is no build
\* command
NeedsBuildCmd(fun, type) ==
    \/ fun = "scan_java_proj" /\ type \in {"gradle", "ant"}
    \/ fun = "scan_cs_proj"

\* the first command of a scan function, by its place in the function
FirstStep(fun, type, cmd, java_build) ==
    IF fun = "scan_not_build_proj" THEN "scan"
    ELSE IF fun = "scan_cs_proj" THEN "begin"
    ELSE IF type \in {"any", "no_build"}
    THEN (IF java_build /\ cmd # <<>> THEN "prebuild" ELSE "scan")
    ELSE IF type = "gradle" THEN "gradle"
    ELSE IF type \in {"maven", "mvn"} THEN "maven"
    ELSE "ant"

\* the cmd_type each call of run_cmd passes
CmdType(s) ==
    IF s = "prebuild" THEN "none"
    ELSE IF s \in {"scan", "end"} THEN "analyze"
    ELSE "compile"

\* the command after a command that did not raise
NextStep(s) ==
    IF s = "prebuild" THEN "scan"
    ELSE IF s = "begin" THEN "build"
    ELSE IF s = "build" THEN "end"
    ELSE "returned"

\* what the scan function returns: the path of report-task.txt; the maven
\* and ant branches of scan_java_proj end without a return statement
ReturnsReportPath(fun, type) ==
    ~(fun = "scan_java_proj" /\ type \in {"maven", "mvn", "ant"})

\* a file or directory under the source directory (build_cwd lies in it)
InSource(n) == [dir |-> "source", name |-> n]

\* a file in the scanner work directory of the task
InScannerwork(n) == [dir |-> "scannerwork", name |-> n]

\* self.scannerwork, the directory <work_dir>/scannerwork
scannerwork == [dir |-> "scannerwork", name |-> "."]

\* the files the unit looks at: the places the scan functions name, the
\* place maven writes to, a left-over copy, and the file SONAR_REPORT names
Handles ==
    {InSource(".scannerwork/report-task.txt"),
     InSource("build/sonar/report-task.txt"),
     InSource(".sonarqube/out/.sonar/report-task.txt"),
     InSource("target/sonar/report-task.txt"),
     InSource("old/Old-Report-Task.txt"),
     InSource("custom.txt"),
     InScannerwork("report-task.txt")}

\* what can exist after the scan: a file of the work directory only with
\* the directory
Disks ==
    {d \in SUBSET (Handles \cup {scannerwork}) :
        InScannerwork("report-task.txt") \in d => scannerwork \in d}

\* f.lower().endswith("report-task.txt")
EndsWithReportTask(n) ==
    n \in {".scannerwork/report-task.txt", "build/sonar/report-task.txt",
           ".sonarqube/out/.sonar/report-task.txt",
           "target/sonar/report-task.txt", "old/Old-Report-Task.txt",
           "report-task.txt"}

\* get_dir_files(root_dir, "report-task.txt"): the files under the directory
\* whose lower-cased name ends with the suffix; they are gathered in a set,
\* so the list that is returned has no fixed order
ReportFilesUnder(root_dir) ==
    {f \in on_disk : f.dir = root_dir /\ f # scannerwork
                                      /\ EndsWithReportTask(f.name)}

\* the value the scan function returns after its last command: the handle
\* in self.scannerwork when that directory exists, else the place of the
\* variant; None when the branch ends without a return statement
ReturnValue(fun, type) ==
    IF ~ReturnsReportPath(fun, type) THEN <<>>
    ELSE IF scannerwork \in on_disk THEN <<InScannerwork("report-task.txt")>>
    ELSE IF fun = "scan_cs_proj"
    THEN <<InSource(".sonarqube/out/.sonar/report-task.txt")>>
    ELSE IF fun = "scan_java_proj" /\ type = "gradle"
    THEN <<InSource("build/sonar/report-task.txt")>>
    ELSE <<InSource(".scannerwork/report-task.txt")>>

\* the head of the scan function: the build type is looked at and the build
\* command asked for
ScanFunEnter ==
    /\ pc = "scan" /\ scan_pc = "enter"
    /\ IF scan_fun = "scan_java_proj"
          /\ build_type \notin {"any", "no_build", "gradle", "maven", "mvn", "ant"}
       THEN /\ _raise_error("bad_build_type", "config")
            /\ scan_pc' = "raised"
       ELSE IF NeedsBuildCmd(scan_fun, build_type) /\ build_cmd = <<>>
       THEN /\ _raise_error("no_build_cmd", "compile")
            /\ scan_pc' = "raised"
       ELSE /\ scan_pc' = FirstStep(scan_fun, build_type, build_cmd, SQ_JAVA_BUILD)
            /\ UNCHANGED <<pc, outcome, proc, kills, abort_kill>>
    /\ UNCHANGED <<transport, profiles, supervisor, extractor, final, extraction,
                   paging, scan_fun, build_type, build_cmd, SQ_JAVA_BUILD,
                   commands, config, endpoint, is_local_up, timeout, com_cmd,
                   locals, reader, nlines, now, waitobs, logobs, taskobs>>

\* one call of run_cmd by the scan function: the command ends with some
\* outcome; an outcome other than return code 0 raises when the call passed
\* compile or analyze, and else the function goes on
RunStep ==
    /\ pc = "scan"
    /\ scan_pc \in {"prebuild", "scan", "gradle", "maven", "ant", "begin",
                    "build", "end"}
    /\ now' = now + ScanSeconds
    /\ \E o \in Outcomes :
          /\ commands' = Append(commands, [step |-> scan_pc,
                                           cmd_type |-> CmdType(scan_pc),
                                           returncode |-> o])
          /\ IF o # 0 /\ CmdType(scan_pc) \in {"compile", "analyze"}
             THEN /\ _raise_error(IF CmdType(scan_pc) = "compile"
                                  THEN "compile_failed" ELSE "scan_failed",
                                  CmdType(scan_pc))
                  /\ scan_pc' = "raised"
                  /\ UNCHANGED <<returned, report_pc>>
             ELSE /\ scan_pc' = NextStep(scan_pc)
                  /\ pc' = IF NextStep(scan_pc) = "returned" THEN "wait_task"
                           ELSE pc
                  /\ IF NextStep(scan_pc) = "returned"
                     THEN /\ returned' = ReturnValue(scan_fun, build_type)
                          /\ report_pc' = "scanned"
                     ELSE UNCHANGED <<returned, report_pc>>
                  /\ UNCHANGED <<outcome, proc, kills, abort_kill>>
    /\ UNCHANGED <<transport, profiles, supervisor, extractor, overriding,
                   complexity, killing, propfiles, SONAR_REPORT, on_disk, report_path,
                   extraction, paging, scan_fun, build_type, build_cmd,
                   SQ_JAVA_BUILD, config, endpoint, is_local_up, timeout,
                   com_cmd, locals, reader, nlines, waitobs, logobs, taskobs>>

\* scan_proj after the scan function: SONAR_REPORT replaces what was
\* returned; a handle that is None or does not exist is looked for under
\* the source directory and, when it exists, the scanner work directory,
\* and the first entry of the joined list is taken
SearchReport ==
    /\ pc = "wait_task" /\ report_pc = "scanned"
    /\ LET asked == IF SONAR_REPORT # <<>>
                    THEN <<InSource(SONAR_REPORT[1])>> ELSE returned
           in_source == ReportFilesUnder("source")
           in_work == IF scannerwork \in on_disk
                      THEN ReportFilesUnder("scannerwork") ELSE {}
       IN IF asked = <<>> \/ asked[1] \notin on_disk
          THEN IF in_source \cup in_work = {}
               THEN report_path' = asked
               ELSE \E f \in (IF in_source # {} THEN in_source ELSE in_work) :
                       report_path' = <<f>>
          ELSE report_path' = asked
    /\ report_pc' = "searched"
    /\ UNCHANGED <<run, transport, profiles, supervisor, extractor, extraction,
                   paging, builder, overriding, complexity, killing,
                   propfiles, SONAR_REPORT, on_disk, returned>>

\* the entry of _wait_until_task_succeed: a handle that is None or does not
\* exist raises; else the file is opened
ReportEntry ==
    /\ pc = "wait_task" /\ report_pc = "searched"
    /\ IF report_path = <<>> \/ report_path[1] \notin on_disk
       THEN /\ _raise_error("report_missing", "analyze")
            /\ report_pc' = "raised"
       ELSE /\ report_pc' = "opened"
            /\ UNCHANGED <<pc, outcome, proc, kills, abort_kill>>
    /\ UNCHANGED <<transport, profiles, supervisor, extractor, extraction,
                   paging, builder, overriding, complexity, killing,
                   propfiles, SONAR_REPORT, on_disk, returned, report_path, config,
                   endpoint, is_local_up, timeout, com_cmd, locals, reader,
                   nlines, now, waitobs, logobs, taskobs>>

\* scan_proj where it calls the scan function, and what the tool handed over:
\* the function, the build type, the build command and SQ_JAVA_BUILD
InitBuilder ==
    /\ SONAR_TIMEOUT = <<30>>
    /\ project_id \in ProjectIds
    /\ latency = 0
    /\ AtSetQualityProfilesLocal \/ AtSetQualityProfilesCommon
    /\ is_local_up = TRUE
    /\ timeout = SONAR_TIMEOUT[1]
    /\ com_cmd = _get_common_cmds
    /\ pc = "scan"
    /\ deadline = 0
    /\ is_server_up = FALSE
    /\ is_project_created = FALSE
    /\ cnt = 0
    /\ sonar_report = <<>>
    /\ is_success = FALSE
    /\ id = <<>>
    /\ res = NoAnswer
    /\ nlines = 0
    /\ err = "none"
    /\ msg = "none"
    /\ failed_in = "none"
    /\ abort_kill = FALSE
    /\ entry = 0
    /\ polls = 0
    /\ last_status = "none"
    /\ first_up = 0
    /\ flag_at_entry = FALSE
    /\ last_code = 0
    /\ codes = {}
    /\ polled_model = "none"
    /\ marker_seen = FALSE
    /\ fatal_at = 0
    /\ report_line = <<>>
    /\ reads = 0
    /\ queries = {}
    /\ TransportIdle /\ ProfilesIdle /\ SupervisorIdle /\ ExtractorIdle
    /\ ExtractionIdle /\ PagingIdle
    /\ OverridingIdle /\ ComplexityIdle /\ KillingIdle /\ PropfilesIdle
    /\ SONAR_REPORT \in {<<>>, <<"custom.txt">>}
    /\ on_disk \in Disks
    /\ returned = <<>>
    /\ report_path = <<>>
    /\ report_pc = "none"
    /\ scan_fun \in {"scan_java_proj", "scan_cs_proj", "scan_not_build_proj"}
    /\ build_type \in IF scan_fun = "scan_java_proj" THEN BuildTypes ELSE {"none"}
    /\ build_cmd \in IF scan_fun = "scan_not_build_proj" THEN {<<>>} ELSE BuildCmds
    /\ SQ_JAVA_BUILD \in IF scan_fun = "scan_java_proj" THEN BOOLEAN ELSE {FALSE}
    /\ commands = <<>>
    /\ scan_pc = "enter"

NextBuilder ==
    \/ ScanFunEnter
    \/ RunStep
    \/ SearchReport
    \/ ReportEntry
    \/ RaiseKill

SpecBuilder == InitBuilder /\ [][NextBuilder]_vars

\* ------------- the parameter overrides of _set_qualityprofiles, on their own
\* the sequences over a set, up to a length
SeqsUpTo(S, n) == UNION {[1..k -> S] : k \in 0..n}

\* values of rule_info["params"]: the text of an ini section, with or without
\* its [sq] header, given by its options in order, no key twice; the text
\* without header and options is the empty string
ParamStrings ==
    {[header |-> h, options |-> o] :
        h \in BOOLEAN,
        o \in {q \in SeqsUpTo({<<"max", "10">>, <<"max", "20">>, <<"min", "10">>}, 2) :
                  \A i, j \in DOMAIN q : q[i][1] = q[j][1] => i = j}}

\* ConfigReader(cfg_string=rule_param).read("sq") after the header was put in
\* front where it was missing: the dict of the options of the section
read(rule_param) ==
    [k \in {rule_param.options[i][1] : i \in DOMAIN rule_param.options} |->
        LET i == CHOOSE i \in DOMAIN rule_param.options :
                     rule_param.options[i][1] = k
        IN rule_param.options[i][2]]

\* the loop over rule_list: the params of the first entry with the name, the
\* empty string (None in the code) where there is none
RECURSIVE FirstParams(_, _)
FirstParams(list, name) ==
    IF list = <<>> THEN [header |-> FALSE, options |-> <<>>]
    ELSE IF Head(list).name = name THEN Head(list).params
    ELSE FirstParams(Tail(list), name)

\* the loop over the parameters that also adds the keys it did not meet
SetValues_adds_missing(params, dict) ==
    [i \in DOMAIN params |->
        IF params[i].key \in DOMAIN dict
        THEN [params[i] EXCEPT !.value = dict[params[i].key]]
        ELSE params[i]]
    \o (IF \E k \in DOMAIN dict : \A i \in DOMAIN params : params[i].key # k
        THEN LET k == CHOOSE k \in DOMAIN dict :
                          \A i \in DOMAIN params : params[i].key # k
             IN <<[key |-> k, value |-> dict[k]]>>
        ELSE <<>>)

\* the loop over the parameters of the rule: the value of each parameter whose
\* key is in the dict is set
SetValues(params, dict) ==
    [i \in DOMAIN params |->
        IF params[i].key \in DOMAIN dict
        THEN [params[i] EXCEPT !.value = dict[params[i].key]]
        ELSE params[i]]

\* the body of the rule loop for the retained rule squid:S100
OverrideParameters ==
    /\ over_pc = "rule"
    /\ LET rule_param == FirstParams(rule_list, real_name(R1)) IN
          parameters' =
              IF ~rule_param.header /\ rule_param.options = <<>> THEN parameters
              ELSE IF DOMAIN read(rule_param) = {} THEN parameters
              ELSE SetValues(parameters, read(rule_param))
    /\ over_pc' = "done"
    /\ UNCHANGED <<run, transport, profiles, supervisor, extractor, extraction,
                   paging, builder, reporting, propfiles,
                   complexity, killing, rule_list, original>>

\* the rule loop at a retained rule: params["rule_list"] and the parameters
\* element of the rule
InitOverride ==
    /\ InitRun
    /\ SQ_TYPE = "" /\ SQ_COMMON_USER = None /\ platform = "linux"
    /\ SONAR_TIMEOUT = <<30>> /\ latency = 0
    /\ TransportIdle /\ ProfilesIdle /\ SupervisorIdle /\ ExtractorIdle
    /\ ExtractionIdle /\ PagingIdle /\ BuilderIdle
    /\ ComplexityIdle /\ KillingIdle /\ ReportingIdle /\ PropfilesIdle
    /\ rule_list \in SeqsUpTo({[name |-> n, params |-> q] :
                                  n \in {real_name(R1), real_name(R2)},
                                  q \in ParamStrings}, MaxRuleList)
    /\ original \in SeqsUpTo({[key |-> k, value |-> "1"] : k \in {"max", "format"}},
                             MaxParameters)
    /\ parameters = original
    /\ over_pc = "rule"

SpecOverride == InitOverride /\ [][OverrideParameters]_vars

\* ------------------- the cognitive-complexity summary, on its own
\* messages of issues as msg.split() gives them: the message of S3776 with the
\* reported value and the threshold, one with a value under the threshold,
\* one with a single number and one with none
Messages ==
    {<<"from", "20", "to", "15">>, <<"from", "9", "to", "15">>,
     <<"over", "20">>, <<"nested">>}

\* token.isdigit() on the tokens in use
isdigit(token) == token \in {"20", "15", "9"}

\* int(token) on the tokens in use
int(token) ==
    CASE token = "20" -> 20
      [] token = "15" -> 15
      [] token = "9" -> 9

\* rule.endswith(":S3776"): the key after the colon is S3776
IsCognitive(rule) == rule.key = "S3776"

\* [token for token in msg.split() if token.isdigit()]
Digits(m) == SelectSeq(m, isdigit)

\* the excess with the two numbers the other way round
Excess_reversed(info) == int(info[2]) - int(info[1])

\* int(info[0]) - int(info[1])
Excess(info) == int(info[1]) - int(info[2])

\* the loop over issues: the three counters after the issues of a list
RECURSIVE Counters(_)
Counters(list) ==
    IF list = <<>> THEN [cnt |-> 0, sum |-> 0, over |-> 0]
    ELSE LET c == Counters(SubSeq(list, 1, Len(list) - 1))
             last == list[Len(list)]
             info == Digits(last.msg)
         IN IF ~IsCognitive(last.rule) \/ Len(info) < 2 THEN c
            ELSE [cnt |-> c.cnt + 1, sum |-> c.sum + int(info[1]),
                  over |-> c.over + Excess(info)]

\* the end of the issue handling of scan_proj: for a scan that is not
\* incremental the counters are written to params["summary"]; the average is
\* the quotient sum / cnt, kept as the pair of the two, and 0 for no issue
Summarise ==
    /\ sum_pc = "issues"
    /\ summary' =
          IF incr_scan THEN summary
          ELSE LET c == Counters(found) IN
               <<[over_cognc_func_count |-> c.cnt,
                  over_cognc_func_average |->
                      IF c.cnt # 0 THEN <<c.sum, c.cnt>> ELSE <<0, 1>>,
                  over_cognc_sum |-> c.over]>>
    /\ sum_pc' = "done"
    /\ UNCHANGED <<run, transport, profiles, supervisor, extractor, extraction,
                   paging, builder, reporting, propfiles,
                   overriding, killing, incr_scan, found>>

\* scan_proj after the issue loop: the list of issues and params["incr_scan"]
InitSummary ==
    /\ InitRun
    /\ SQ_TYPE = "" /\ SQ_COMMON_USER = None /\ platform = "linux"
    /\ SONAR_TIMEOUT = <<30>> /\ latency = 0
    /\ TransportIdle /\ ProfilesIdle /\ SupervisorIdle /\ ExtractorIdle
    /\ ExtractionIdle /\ PagingIdle /\ BuilderIdle
    /\ OverridingIdle /\ KillingIdle /\ ReportingIdle /\ PropfilesIdle
    /\ incr_scan \in BOOLEAN
    /\ found \in SeqsUpTo({[rule |-> r, msg |-> m] :
                              r \in {R1, R3, Rule("java", "S3776")},
                              m \in Messages}, MaxFound)
    /\ summary = <<>>
    /\ sum_pc = "issues"

SpecSummary == InitSummary /\ [][Summarise]_vars

\* ------------------------------------ kill_proc_famliy, on its own
\* how a descendant answers kill(): it dies, the call raises (access denied),
\* or it returns and the process is still alive when wait_procs gives up
KillAnswers == {"dies", "raises", "survives"}

\* the head of the try block: psutil.Process(pid), children(recursive=True)
\* and terminate().  Each may raise NoSuchProcess (the process is gone) or
\* another error; either handler of the outer try prints and the function
\* returns, the kill loops not run
kill_lookup ==
    /\ kill_pc = "try"
    /\ \E o \in {"Process:NoSuchProcess", "children:NoSuchProcess",
                 "children:AccessDenied", "terminate:NoSuchProcess",
                 "terminate:AccessDenied", "terminated"} :
          /\ target' = o
          /\ kill_pc' = IF o = "terminated" THEN "kill_children" ELSE "returned"
    /\ UNCHANGED <<run, transport, profiles, supervisor, extractor, extraction,
                   paging, builder, reporting, propfiles,
                   overriding, complexity, descendants, alive,
                   attempted>>

\* for child in children: child.kill(), an exception printed and passed over
kill_children ==
    /\ kill_pc = "kill_children"
    /\ attempted' = attempted \cup DOMAIN descendants
    /\ alive' = {c \in alive : descendants[c] # "dies"}
    /\ kill_pc' = "wait_procs"
    /\ UNCHANGED <<run, transport, profiles, supervisor, extractor, extraction,
                   paging, builder, reporting, propfiles,
                   overriding, complexity, target, descendants>>

\* psutil.wait_procs(children, timeout=5) and the loop over still_alive: kill()
\* once more, which ends the process or raises or leaves it as it is
kill_still_alive ==
    /\ kill_pc = "wait_procs"
    /\ \E dead \in SUBSET {c \in alive : descendants[c] = "survives"} :
          alive' = alive \ dead
    /\ kill_pc' = "returned"
    /\ UNCHANGED <<run, transport, profiles, supervisor, extractor, extraction,
                   paging, builder, reporting, propfiles,
                   overriding, complexity, target, descendants,
                   attempted>>

\* kill_proc_famliy called for a process with some descendants
InitKill ==
    /\ InitRun
    /\ SQ_TYPE = "" /\ SQ_COMMON_USER = None /\ platform = "linux"
    /\ SONAR_TIMEOUT = <<30>> /\ latency = 0
    /\ TransportIdle /\ ProfilesIdle /\ SupervisorIdle /\ ExtractorIdle
    /\ ExtractionIdle /\ PagingIdle /\ BuilderIdle
    /\ OverridingIdle /\ ComplexityIdle /\ ReportingIdle /\ PropfilesIdle
    /\ target = "none"
    /\ descendants \in SeqsUpTo(KillAnswers, MaxChildren)
    /\ alive = DOMAIN descendants
    /\ attempted = {}
    /\ kill_pc = "try"

NextKill ==
    \/ kill_lookup
    \/ kill_children
    \/ kill_still_alive

SpecKill == InitKill /\ [][NextKill]_vars

\* ------------------ conf/sonar.properties over several runs of the tool
\* the runs that are followed
MaxRuns == 3

\* sonar.properties as installed
Original == <<"sonar.web.port=9000">>

\* the values of SONAR_SERVER_PARAMS, by their parts between the semicolons
ServerParams ==
    {<<"sonar.web.javaOpts=-Xmx512m">>,
     <<"sonar.web.javaOpts=-Xmx1g", "sonar.ce.javaOpts=-Xmx512m">>}

\* envs.get("SONAR_SERVER_PARAMS").strip('"').split(";")
sonar_server_params == SONAR_SERVER_PARAMS[1]

\* the groups the unit leaves alone
propfiles_rest ==
    <<run, transport, profiles, supervisor, extractor, extraction, paging,
      builder, overriding, complexity, killing, reporting>>

\* a run begins and _start_local_sonarqube starts the server: with
\* SONAR_SERVER_PARAMS in the environment the file is copied to
\* sonar.properties.temp unless that exists, and one line per parameter is
\* appended; the server then reads the file
StartWithParams ==
    /\ prop_pc = "idle"
    /\ runs < MaxRuns
    /\ runs' = runs + 1
    /\ \E sp \in {<<>>} \cup {<<v>> : v \in ServerParams} :
          /\ SONAR_SERVER_PARAMS' = sp
          /\ IF sp # <<>>
             THEN /\ property_temp' = IF property_temp = <<>>
                                      THEN <<property_path>> ELSE property_temp
                  /\ property_path' = property_path \o sp[1]
             ELSE UNCHANGED <<property_path, property_temp>>
    /\ started_with' = property_path'
    /\ run_model' = LOCAL_MODEL
    /\ prop_pc' = "running"
    /\ UNCHANGED propfiles_rest

\* _wait_until_sonarqube_on gives the local server up: the run goes on with
\* the common server
FailOver ==
    /\ prop_pc = "running"
    /\ run_model = LOCAL_MODEL
    /\ run_model' = COMMON_MODEL
    /\ UNCHANGED <<propfiles_rest, property_path, property_temp,
                   SONAR_SERVER_PARAMS, started_with, runs, prop_pc>>

\* the run ends in _raise_error: the local server is killed and the error
\* raised; the files are left as they are
RunRaises ==
    /\ prop_pc = "running"
    /\ prop_pc' = "idle"
    /\ UNCHANGED <<propfiles_rest, property_path, property_temp,
                   SONAR_SERVER_PARAMS, run_model, started_with, runs>>

\* the run comes to the end of scan_proj: with a LOCAL model and
\* SONAR_SERVER_PARAMS in the environment sonar.properties is removed and
\* sonar.properties.temp renamed to it
RunReturns ==
    /\ prop_pc = "running"
    /\ IF run_model = LOCAL_MODEL /\ SONAR_SERVER_PARAMS # <<>>
       THEN /\ property_path' = property_temp[1]
            /\ property_temp' = <<>>
       ELSE UNCHANGED <<property_path, property_temp>>
    /\ prop_pc' = "idle"
    /\ UNCHANGED <<propfiles_rest, SONAR_SERVER_PARAMS, run_model,
                   started_with, runs>>

\* the tool as installed, before its first run
InitProperties ==
    /\ InitRun
    /\ SQ_TYPE = "" /\ SQ_COMMON_USER = None /\ platform = "linux"
    /\ SONAR_TIMEOUT = <<30>> /\ latency = 0
    /\ TransportIdle /\ ProfilesIdle /\ SupervisorIdle /\ ExtractorIdle
    /\ ExtractionIdle /\ PagingIdle /\ BuilderIdle
    /\ OverridingIdle /\ ComplexityIdle /\ KillingIdle /\ ReportingIdle
    /\ property_path = Original
    /\ property_temp = <<>>
    /\ SONAR_SERVER_PARAMS = <<>>
    /\ run_model = "none"
    /\ started_with = <<>>
    /\ runs = 0
    /\ prop_pc = "idle"

NextProperties ==
    \/ StartWithParams
    \/ FailOver
    \/ RunRaises
    \/ RunReturns

SpecProperties == InitProperties /\ [][NextProperties]_vars

\* ======================================================== properties
\* the run is ending with an error: inside _raise_error, or out of scan_proj
Aborted == pc \in {"raise_kill", "failed"}

\* what the observations of the readiness wait describe
WaitOnObserved ==
    \/ pc \in {"wait_on_loop", "wait_on_poll", "get_common_cmds", "project_create"}
    \/ Aborted /\ failed_in = "wait_on_poll"

\* _wait_until_sonarqube_on has returned
WaitOnReturned == pc \in {"get_common_cmds", "project_create"}

\* what the observations of the task poller describe
TaskObserved ==
    \/ pc \in {"task_loop", "dump_measures"}
    \/ Aborted /\ failed_in = "task_loop"

\* the run has failed inside one of the three wait loops
FailedInWait ==
    Aborted /\ failed_in \in {"wait_on_poll", "project_create_loop", "task_loop"}

\* C1: a run that owns a LOCAL server and aborts in any phase of scan_proj,
\* with whatever error class, has attempted teardown (_kill_sonar) before the
\* error reaches the caller.
C1_TeardownBeforeEveryError ==
    (pc = "failed" /\ model = LOCAL_MODEL) => abort_kill

\* C2 (as claimed): once model is COMMON no call of _kill_sonar is made,
\* neither at the end of a successful run nor on a _raise_error path.
C2_NoKillOnceCommon ==
    [][model = COMMON_MODEL => kills' = kills]_vars

\* C2 (amended): _kill_sonar is called only before the local server is
\* spawned and after a test of self.model that found LOCAL, never after a
\* test that found COMMON; a run that SQ_TYPE links to the shared server
\* never calls it.  (The reader thread may switch the model between such a
\* test and the call, which then ends the local process of the run.)
C2_CommonNeverTornDown ==
    /\ []((SQ_TYPE = COMMON_MODEL /\ SQ_COMMON_USER # None) => kills = 0)
    /\ [][kills' # kills => pc \in {"start", "raise_kill", "teardown_kill"}]_vars
    /\ [][(pc' \in {"raise_kill", "teardown_kill"} /\ pc' # pc)
            => (model = LOCAL_MODEL /\ pc \notin {"start", "failed", "done"})]_vars
    /\ [][(model = COMMON_MODEL /\ pc \notin {"raise_kill", "teardown_kill"})
            => kills' = kills]_vars

\* C2 witness: a run that failed over to COMMON after its local server was
\* spawned has ended through _raise_error, and the local process still runs.
C2_Witness ==
    /\ pc = "failed" /\ err = "AnalyzeTaskError"
    /\ model = COMMON_MODEL /\ SQ_TYPE = ""
    /\ proc = "running" /\ kills = 1

\* C3: one endpoint per run: from the moment the scan command's arguments are
\* built, the endpoint they carry is the endpoint the object's fields and
\* sonar_handle name, so the reader thread has not switched it.
C3_OneEndpointPerRun ==
    pc \in {"project_create", "project_create_loop", "set_settings",
            "set_qualityprofiles", "scan", "wait_task", "task_loop",
            "dump_measures", "get_issues", "reset_settings", "teardown"}
    => /\ com_cmd = _get_common_cmds
       /\ com_cmd[2][2] = <<sonar_handle.host, sonar_handle.port, sonar_handle.base_path>>

\* C4: model changes only from LOCAL to COMMON (so at most once), it is COMMON
\* only when SQ_COMMON_USER is configured, and SQ_TYPE=COMMON without
\* SQ_COMMON_USER starts a local server.
C4_ModelOneWay ==
    /\ [](model = COMMON_MODEL => SQ_COMMON_USER # None)
    /\ []((SQ_TYPE = COMMON_MODEL /\ SQ_COMMON_USER = None /\ pc # "start")
            => (model = LOCAL_MODEL /\ proc # "none"))
    /\ [][model' # model => (model = LOCAL_MODEL /\ model' = COMMON_MODEL)]_vars

\* C4 witness: a run without SQ_TYPE has failed over to COMMON on a fatal log
\* line, and the reader thread has handled a further line after that.
C4_Witness ==
    /\ model = COMMON_MODEL /\ SQ_TYPE = "" /\ SQ_COMMON_USER # None
    /\ nlines = MaxLines /\ pc = "done"

\* C5: the readiness wait returns only when the last status poll said UP and
\* is_local_up is set; off Windows the flag is set only by model becoming
\* COMMON or by a log line holding the readiness marker.
C5_ReadyNeedsUpAndFlag ==
    /\ WaitOnReturned => (last_status = "UP" /\ is_server_up /\ is_local_up)
    /\ (is_local_up /\ platform # "win32") => (model = COMMON_MODEL \/ marker_seen)

\* C5 witness: on Linux with a LOCAL server the wait has returned, after a
\* poll that said UP while the flag was not yet set did not end it.
C5_Witness ==
    /\ WaitOnReturned /\ model = LOCAL_MODEL /\ platform = "linux"
    /\ first_up # 0 /\ polls > first_up

\* C6 (as claimed): with the flag set at entry and UP first returned by poll
\* N, the wait returns without error after exactly N polls.
C6_ReadyAfterExactlyNPolls ==
    (WaitOnObserved /\ flag_at_entry /\ first_up # 0)
    => (polls = first_up /\ pc \in {"wait_on_loop", "get_common_cmds", "project_create"})

\* C6 (amended): with the flag set at entry the wait never returns before the
\* first poll that says UP and never polls after it; it returns without error
\* when that poll completes by the deadline and raises the timeout error when
\* it completes after the deadline.
C6_ReadyAfterExactlyNPollsByDeadline ==
    (WaitOnObserved /\ flag_at_entry)
    => /\ WaitOnReturned => (first_up # 0 /\ polls = first_up)
       /\ first_up # 0 =>
            /\ polls = first_up
            /\ pc # "wait_on_poll"
            /\ Aborted = (deadline < now)
            /\ Aborted => (err = "AnalyzeTaskError" /\ msg = "wait_on_timeout")

\* C6 witness: the flag was set at entry, two polls were not UP, the third
\* was, and the wait has returned after three polls.
C6_Witness ==
    /\ WaitOnReturned /\ flag_at_entry /\ first_up = 3 /\ polls = 3
    /\ model = LOCAL_MODEL

\* the awaited condition of the failed wait phase was never observed
AwaitedNeverObserved ==
    /\ failed_in = "wait_on_poll" => first_up = 0
    /\ failed_in = "project_create_loop" => ~is_project_created
    /\ failed_in = "task_loop" => res.status \notin {"SUCCESS", "FAILED"}

TimeoutMessages == {"wait_on_timeout", "project_create_timeout", "task_timeout"}

\* C7 (as claimed): a wait phase whose awaited condition never occurs ends
\* with a timeout-classified AnalyzeTaskError no later than timeout + one poll
\* interval after entry.
C7_TimeoutWithinOneInterval ==
    (FailedInWait /\ AwaitedNeverObserved)
    => /\ err = "AnalyzeTaskError" /\ msg \in TimeoutMessages
       /\ now <= entry + timeout + sleep_second

\* C7 (amended): in each wait phase the deadline is entry time + timeout,
\* whatever time earlier phases took; the loop goes on only while the clock is
\* within the deadline and ends no later than timeout + sleep_second + the
\* duration of one request after entry; the readiness wait and the task
\* poller issue at most timeout/sleep_second + 1 polls and project creation
\* makes at most retry_times + 1 attempts; a readiness wait that fails, and a
\* task poll that never saw SUCCESS or FAILED, end with the timeout-classified
\* AnalyzeTaskError after the deadline; a project creation that fails ends
\* with the retry-budget error, the timeout error or the client's ServerError.
C7_DeadlinePerPhase ==
    (FailedInWait \/ pc \in {"wait_on_loop", "wait_on_poll", "project_create_loop", "task_loop"})
    => /\ deadline = entry + timeout
       /\ now <= deadline + sleep_second + latency
       /\ ~Aborted => now <= deadline
       /\ polls <= (IF pc = "project_create_loop" \/ failed_in = "project_create_loop"
                    THEN retry_times + 1
                    ELSE (timeout \div sleep_second) + 1)
       /\ (Aborted /\ msg \in TimeoutMessages) => deadline < now
       /\ (Aborted /\ failed_in = "wait_on_poll")
             => (err = "AnalyzeTaskError" /\ msg = "wait_on_timeout")
       /\ (Aborted /\ failed_in = "task_loop" /\ AwaitedNeverObserved)
             => (err = "AnalyzeTaskError" /\ msg = "task_timeout")
       /\ (Aborted /\ failed_in = "project_create_loop")
             => \/ err = "AnalyzeTaskError" /\ msg = "project_create_timeout"
                \/ err = "AnalyzeTaskError" /\ msg = "project_create_retry"
                      /\ cnt = retry_times + 1
                \/ err = "ServerError"

\* C7 witness: the task poller, entered after the earlier phases took time,
\* has ended with the timeout error, later than timeout + sleep_second after
\* its entry.
C7_Witness ==
    /\ pc = "failed" /\ failed_in = "task_loop" /\ msg = "task_timeout"
    /\ entry > 0 /\ now > entry + timeout + sleep_second

ClaimedFailedClass(m) ==
    IF m # <<>> /\ Len(m[1]) >= 2
       /\ Lower(m[1][1]) = "load called twice for thread '"
       /\ \E j \in 2..Len(m[1]) :
             Lower(m[1][j]) = "' or state wasn't cleared last time it was used"
    THEN "task_needs_restart"
    ELSE IF m = << <<"Java heap space">> >> THEN "task_heap_space"
    ELSE IF m = << <<"Unrecoverable indexation failures: 1 errors among 1 requests">> >>
    THEN "task_index_failure"
    ELSE "task_unclassified"

\* C9: a task-status answer of FAILED ends the poller with AnalyzeTaskError of
\* the one class its errorMessage selects.
C9_FailedGivesOneClass ==
    (TaskObserved /\ res.status = "FAILED")
    => /\ Aborted
       /\ err = "AnalyzeTaskError"
       /\ msg = ClaimedFailedClass(res.errorMessage)

\* the line has one = sign
OneEqualsSign(s) == Cardinality({i \in DOMAIN s : s[i] = "="}) = 1

\* the text after the = sign of such a line
TextAfterEquals(s) ==
    LET i == CHOOSE k \in DOMAIN s : s[k] = "=" IN SubSeq(s, i + 1, Len(s))

\* C10: the task id is read once, from the fifth line of the report, as the
\* text after the = sign of that line (white space around the line aside),
\* and every task-status query of the run carries that id.
C10_TaskIdFromFifthLine ==
    TaskObserved
    => /\ reads = 1
       /\ queries \subseteq {id}
       /\ polls > 0 => queries = {id}
       /\ OneEqualsSign(report_line) => id = TextAfterEquals(strip(report_line))

\* C10 witness: the fifth line is c=AX, and three queries have been made, all
\* with the id AX.
C10_Witness ==
    /\ pc = "dump_measures" /\ polls = 3
    /\ report_line = <<"c", "=", "A", "X", "\n">>
    /\ id = <<"A", "X">> /\ queries = {<<"A", "X">>}

\* what the observations of project creation describe
ProjectCreateObserved ==
    \/ pc \in {"project_create_loop", "set_settings"}
    \/ Aborted /\ failed_in = "project_create_loop"

C12_AuthErrorSurfacedImmediately ==
    (ProjectCreateObserved /\ last_code \in {401, 403})
    => /\ Aborted
       /\ cnt = 1
       /\ now = entry + latency

\* C13: _request maps a status below 300 to the returned response, 400 to
\* ValidationError, 401 and 403 to AuthError, every other 4xx to ClientError
\* and 5xx to ServerError, and reports no status outside 4xx as a client
\* error.
C13_RequestClassifiesByStatus ==
    response # "none"
    => /\ http_status < 300 => response = "ok"
       /\ http_status = 400 => response = "ValidationError"
       /\ http_status \in {401, 403} => response = "AuthError"
       /\ (http_status \in 400..499 /\ http_status \notin {400, 401, 403})
             => response = "ClientError"
       /\ http_status \in 500..599 => response = "ServerError"
       /\ IsClientError(response) => http_status \in 400..499

\* the rules of a document all named by params["rules"]
OnlyAllowedRules(document) ==
    \A k \in DOMAIN document.rules : real_name(document.rules[k]) \in rules

\* C14 as stated: every document sent to the server, whichever candidate it
\* came from, holds only rules that params["rules"] names.
C14_EveryPublishedDocumentFiltered ==
    \A i \in DOMAIN restored : OnlyAllowedRules(restored[i].document)

\* C14: every document sent to the server from a path that ends with
\* _SonarQube_Profile.xml holds only rules that params["rules"] names; a
\* build-type document or an override under another name is sent as it is.
C14_DefaultNamedDocumentsFiltered ==
    \A i \in DOMAIN restored :
       EndsWith(restored[i].path.name, DefaultSuffix)
       => OnlyAllowedRules(restored[i].document)

\* C14 witness: the default java document was sent after losing a rule.
C14_Witness ==
    \E i \in DOMAIN restored :
       /\ restored[i].path = Path(WorkDir, <<"java", "SonarQube", "Profile.xml">>)
       /\ real_name(R2) \notin rules
       /\ real_name(R1) \in rules
       /\ Len(restored[i].document.rules) < 3

\* the document of the tool a published default document was copied from
DefaultSource(path) == ToolFiles[Path(ToolDir, path.name)]

\* C15: a default document with rules D, sent under allowed rules A, holds
\* exactly the rules of D that A names, in the order D had them.
C15_DefaultPublishedIsIntersection ==
    \A i \in DOMAIN restored :
       (restored[i].path.dir = WorkDir /\ EndsWith(restored[i].path.name, DefaultSuffix))
       => restored[i].document.rules
             = SelectSeq(DefaultSource(restored[i].path).rules,
                         LAMBDA rule : real_name(rule) \in rules)

\* C15 witness: D = R1, R2, R3 and A = {R1, R3} were sent as R1, R3.
C15_Witness ==
    /\ rules = {real_name(R1), real_name(R3)}
    /\ \E i \in DOMAIN restored :
          /\ restored[i].path = Path(WorkDir, <<"java", "SonarQube", "Profile.xml">>)
          /\ restored[i].document.rules = <<R1, R3>>

\* the candidates of a language, by the loop that offers them
DefaultCandidates(lang) ==
    {Path(WorkDir, f.name) : f \in
        {g \in get_dir_files(files, ToolDir, DefaultSuffix) :
            FileLower(g.name[1]) = lang /\ lang \in COMMON_SONAR_LANGS}}

TypeCandidates(lang) ==
    IF SONAR_QUALITYPROFILE_TYPE = <<>> THEN {}
    ELSE {Path(WorkDir, f.name) : f \in
            {g \in get_dir_files(files, ToolDir, TypeSuffix) :
                files[g].language = lang /\ lang \in languages}}

OverrideCandidates(lang) ==
    {f \in {Path(SourceDir, SONAR_QUALITYPROFILE[i]) : i \in DOMAIN SONAR_QUALITYPROFILE} :
        f \in DOMAIN files /\ files[f].language = lang /\ lang \in languages}

\* the candidates of the highest precedence a language has
Best(lang) ==
    IF OverrideCandidates(lang) # {} THEN OverrideCandidates(lang)
    ELSE IF TypeCandidates(lang) # {} THEN TypeCandidates(lang)
    ELSE DefaultCandidates(lang)

ProfileLanguages == {"java", "js", "cobol"}

\* C16: no language has two documents sent, each document sent is a candidate
\* of the highest precedence its language has (default, then build type, then
\* override), and when the call returns every language with a candidate has
\* had one sent.
C16_HighestPrecedencePerLanguage ==
    /\ \A i, j \in DOMAIN restored :
          restored[i].language = restored[j].language => i = j
    /\ \A i \in DOMAIN restored :
          restored[i].path \in Best(restored[i].language)
    /\ step = "returned"
       => \A lang \in ProfileLanguages :
             Best(lang) # {} => \E i \in DOMAIN restored : restored[i].language = lang

\* C16 witness: java had a default, a build-type document and an override,
\* js only a default; the override and the js default are what was sent.
C16_Witness ==
    /\ step = "returned"
    /\ DefaultCandidates("java") # {} /\ TypeCandidates("java") # {}
    /\ \E i, j \in DOMAIN restored :
          /\ restored[i].path = Path(SourceDir, <<"team.xml">>)
          /\ restored[j].path = Path(WorkDir, <<"Js", "SonarQube", "Profile.xml">>)

\* a name of SONAR_QUALITYPROFILE is the name of no file
OverrideMissing ==
    \E i \in DOMAIN SONAR_QUALITYPROFILE :
       Path(SourceDir, SONAR_QUALITYPROFILE[i]) \notin DOMAIN files

\* C17: when a name of SONAR_QUALITYPROFILE is the name of no file, the call
\* ends in ConfigError out of its one pass over the names, the local server
\* is killed before the error leaves when the model is LOCAL, and no document
\* has been sent or associated.
C17_MissingOverrideIsConfigError ==
    (OverrideMissing /\ step # "gather")
    => /\ step = "raised"
       /\ err = "ConfigError"
       /\ Aborted
       /\ restored = <<>>
       /\ (pc = "failed" /\ model = LOCAL_MODEL) => (abort_kill /\ proc = "killed")

\* C17 witness: the second name was missing, the run owned its server, and
\* the error has left after the kill.
C17_Witness ==
    /\ SONAR_QUALITYPROFILE = << <<"team.xml">>, <<"gone.xml">> >>
    /\ pc = "failed" /\ err = "ConfigError" /\ model = LOCAL_MODEL
    /\ abort_kill /\ proc = "killed" /\ kills = 2 /\ restored = <<>>

\* Process.wait has returned to run_cmd
WaitReturned == wait_pc \in {"check", "raised", "returned"}

\* C18: once Process.wait has returned, every line the child wrote to the
\* stream has been handed to the callback of the stream.
C18_NoOutputDroppedBeforeWaitReturns ==
    WaitReturned => Lines(delivered) = pipe

\* C19: once __handle has raised on the reader thread, run_cmd does not return
\* to scan_proj for the later phases, and a run that ends in an error ends in
\* the error __handle raised, the local server killed.
C19_CallbackErrorReachesMainThread ==
    thread_err \in {"AnalyzeTaskError", "ConfigError"}
    => /\ wait_pc # "returned"
       /\ pc = "failed" => /\ err = thread_err
                           /\ model = LOCAL_MODEL => proc = "killed"

\* s.startswith(prefix)
StartsWith(s, prefix) ==
    Len(s) >= Len(prefix) /\ SubSeq(s, 1, Len(prefix)) = prefix

\* C20: the path of a finding does not begin with SOURCE_DIR, and joined to
\* SOURCE_DIR it names the file of the component, for every component and
\* every value of BUILD_CWD.
C20_PathRelativeToSourceRoot ==
    finding_path # <<>>
    => /\ ~StartsWith(finding_path[1], SOURCE_DIR)
       /\ join(SOURCE_DIR, finding_path[1]) = ComponentFile

\* the phases of scan_proj that make up _wait_until_sonarqube_on
WaitOnPcs == {"wait_on", "wait_on_loop", "wait_on_poll"}

\* C25: once a line of the local server's log held a known-fatal signature
\* with no shared server configured, the readiness wait never returns to
\* scan_proj for the project creation and the scan.
C25_FatalLineFailsRun ==
    [][(fatal_at > 0 /\ SQ_COMMON_USER = None /\ pc \in WaitOnPcs)
          => pc' \in WaitOnPcs \cup {"raise_kill", "failed"}]_vars

\* a line of the local server's log is handed to _start_sonarqube
LogLineStep == nlines' = nlines + 1

\* C26: the log line with a known-fatal signature, a shared server being
\* configured, leaves the model COMMON, every endpoint field, the handle and
\* the project key those of the shared server and the ready flag set; once
\* the model is COMMON no log line of the local process changes any of them.
C26_SwitchIsCompleteAndFinal ==
    [][/\ (LogLineStep /\ fatal_at = 0 /\ fatal_at' > 0 /\ SQ_COMMON_USER # None)
          => /\ model' = COMMON_MODEL
             /\ base_url' = SQ_COMMON_USER.url
             /\ port' = SQ_COMMON_USER.port
             /\ base_path' = SQ_COMMON_USER.base_path
             /\ user' = SQ_COMMON_USER.username
             /\ password' = SQ_COMMON_USER.password
             /\ projectKey' = SQ_COMMON_USER.projectKey \o "_" \o project_id
             /\ sonar_handle' = SQAPIHandler(SQ_COMMON_USER.url, SQ_COMMON_USER.port,
                                             SQ_COMMON_USER.base_path,
                                             <<SQ_COMMON_USER.username, "">>)
             /\ is_local_up'
       /\ (LogLineStep /\ model = COMMON_MODEL)
          => UNCHANGED <<endpoint, is_local_up>>]_vars

\* C26 witness: the first line of the log made the switch and a second line
\* has come since.
C26_Witness ==
    /\ fatal_at = 1 /\ nlines = 2 /\ model = COMMON_MODEL
    /\ SQ_COMMON_USER # None /\ SQ_TYPE # COMMON_MODEL
    /\ projectKey = SQ_COMMON_USER.projectKey \o "_" \o project_id

\* a query of the task poller is answered, and the answer is not a terminal
\* status: res keeps such an answer only when the deadline has passed
NonTerminalStep ==
    /\ pc = "task_loop" /\ polls' = polls + 1
    /\ res'.status \notin {"SUCCESS", "FAILED"}

\* C27: a task-status answer that is neither SUCCESS nor FAILED, and a query
\* that raises, cost one sleep and leave the poller in its loop with no error;
\* only the deadline ends such a step, with the timeout error.
C27_NonTerminalKeepsLooping ==
    [][NonTerminalStep
          => /\ now' = now + sleep_second + latency
             /\ now' <= deadline
                   => (pc' = "task_loop" /\ err' = "none" /\ ~is_success')
             /\ deadline < now'
                   => /\ pc' \in {"raise_kill", "failed"}
                      /\ err' = "AnalyzeTaskError" /\ msg' = "task_timeout"]_vars

\* C27 witness: two queries were answered without a terminal status and the
\* poller is about to make the third.
C27_Witness ==
    /\ pc = "task_loop" /\ polls = 2 /\ res = NoAnswer /\ err = "none"
    /\ now = entry + 2 * (sleep_second + latency)

\* the four messages of a FAILED task
FailedClasses ==
    {"task_needs_restart", "task_heap_space", "task_index_failure",
     "task_unclassified"}

\* C28: the task poller raises its timeout error only past the deadline set
\* at entry and only when the latest answer was neither SUCCESS nor FAILED,
\* and a FAILED answer always ends in one of the FAILED errors.
C28_TimeoutDistinctFromFailed ==
    /\ (Aborted /\ failed_in = "task_loop" /\ msg = "task_timeout")
       => /\ deadline < now
          /\ deadline = entry + timeout
          /\ res.status \notin {"SUCCESS", "FAILED"}
    /\ (TaskObserved /\ res.status = "FAILED")
       => /\ Aborted
          /\ err = "AnalyzeTaskError"
          /\ msg \in FailedClasses

\* every attempt of the project creation so far was answered with a 4xx
\* status other than 400, 401 and 403
OnlyGenericClientErrors == codes # {} /\ codes \subseteq {404}

\* C29 as stated: project_create is called at most retry_times + 1 times, and
\* a phase in which every attempt failed with a generic client error ends in
\* the retry-budget AnalyzeTaskError, the owned local server killed first.
C29_RetryBudgetEndsPhase ==
    /\ cnt <= retry_times + 1
    /\ (Aborted /\ failed_in = "project_create_loop" /\ OnlyGenericClientErrors)
       => /\ err = "AnalyzeTaskError" /\ msg = "project_create_retry"
          /\ (pc = "failed" /\ model = LOCAL_MODEL) => abort_kill

\* C29 (amended): project_create is called at most retry_times + 1 times, a
\* generic client error costs one sleep, and a phase in which every attempt
\* failed with a generic client error ends in AnalyzeTaskError, the owned
\* local server killed first: the retry-budget error after attempt
\* retry_times + 1, or the timeout error after an earlier attempt that ended
\* past the deadline.
C29_RetryBudgetOrDeadlineEndsPhase ==
    /\ cnt <= retry_times + 1
    /\ (ProjectCreateObserved /\ OnlyGenericClientErrors)
       => /\ now = entry + cnt * (latency + sleep_second)
          /\ pc = "project_create_loop" => (cnt <= retry_times /\ now <= deadline)
          /\ Aborted
             => /\ err = "AnalyzeTaskError"
                /\ \/ msg = "project_create_retry" /\ cnt = retry_times + 1
                   \/ /\ msg = "project_create_timeout" /\ cnt <= retry_times
                      /\ deadline < now
                /\ (pc = "failed" /\ model = LOCAL_MODEL) => abort_kill

\* C29 witness: six attempts, each answered 404, and the run has ended in the
\* retry-budget error with its local server killed.
C29_Witness ==
    /\ pc = "failed" /\ failed_in = "project_create_loop" /\ codes = {404}
    /\ cnt = retry_times + 1 /\ msg = "project_create_retry"
    /\ model = LOCAL_MODEL /\ abort_kill /\ proc = "killed"

\* C30 as stated: every document restored on the server and associated with
\* the project has a language of the requested list.
C30_OnlyRequestedLanguagesPublished ==
    \A i \in DOMAIN restored : restored[i].language \in languages

\* C30 (amended): a build-type document or an override is restored only for a
\* language of the requested list; a default document is restored for every
\* language of COMMON_SONAR_LANGS it is named for, requested or not.
C30_OnlyDefaultsOutsideRequested ==
    \A i \in DOMAIN restored :
       \/ restored[i].language \in languages
       \/ /\ restored[i].path \in DefaultCandidates(restored[i].language)
          /\ restored[i].language \in COMMON_SONAR_LANGS

\* C30 witness: only java was requested; the java override and the default
\* document of js were both restored and associated.
C30_Witness ==
    /\ languages = {"java"}
    /\ \E i, j \in DOMAIN restored :
          /\ restored[i].path = Path(SourceDir, <<"team.xml">>)
          /\ restored[i].associated
          /\ restored[j].language = "js" /\ restored[j].associated

\* the blocks of an answer of duplications_show, duplication after duplication
RECURSIVE AllBlocks(_)
AllBlocks(duplications) ==
    IF duplications = <<>> THEN <<>>
    ELSE Head(duplications).blocks \o AllBlocks(Tail(duplications))

\* a finding carries the path, rule and message of the issue it came from
CarriesParent(finding) ==
    /\ finding.path = Slice(ComponentFile, Len(SOURCE_DIR) + 1)
    /\ finding.rule = issue[1].rule
    /\ finding.msg = issue[1].message

\* the reference the claim gives for a block
ClaimedRef(block) ==
    [line |-> block.from, column |-> 0,
     msg |-> <<"duplicated block", block.from, block.from + block.size - 1>>,
     tag |-> <<>>, path |-> DuplFiles[block._ref].name]

\* C21 as stated: a duplication issue whose lookup reports two blocks gives
\* exactly two findings, each carrying the path, rule and message of the issue
\* and the reference of one of the two blocks.
C21_OneFindingPerBlock ==
    (dupl_blocks # <<>> /\ Len(AllBlocks(dupl_blocks[1].duplications)) = 2)
    => /\ Len(issues) = 2
       /\ \A k \in DOMAIN issues :
             /\ CarriesParent(issues[k])
             /\ issues[k].refs = <<ClaimedRef(AllBlocks(dupl_blocks[1].duplications)[k])>>

\* C21 (amended): a duplication issue gives one finding for each duplication
\* its lookup reports (two for two duplications), each carrying the path, rule
\* and message of the issue and one reference for each block of its
\* duplication: the line the block starts at, the message naming the lines
\* start..start+size-1 and the path the name of the block's file.
C21_OneFindingPerDuplication ==
    dupl_blocks # <<>>
    => /\ Len(issues) = Len(dupl_blocks[1].duplications)
       /\ \A k \in DOMAIN issues :
             /\ CarriesParent(issues[k])
             /\ Len(issues[k].refs) = Len(dupl_blocks[1].duplications[k].blocks)
             /\ \A j \in DOMAIN issues[k].refs :
                   issues[k].refs[j] = ClaimedRef(dupl_blocks[1].duplications[k].blocks[j])

\* C21 witness: two duplications of two blocks each gave two findings of two
\* references each.
C21_Witness ==
    /\ dupl_blocks # <<>> /\ Len(dupl_blocks[1].duplications) = 2
    /\ Len(issues) = 2
    /\ Len(issues[1].refs) = 2 /\ Len(issues[2].refs) = 2
    /\ issues[2].refs[2].line = 10 /\ issues[2].refs[2].path = "B.java"

\* the number of the last page: max(1, ceil(total / ps))
LastPage == IF total = 0 THEN 1 ELSE (total + ps - 1) \div ps

\* the pages requested so far are 1, 2, ... up to the last at most, and the
\* issues yielded so far are the first ones of the server, once each, in order
PagesInOrder ==
    /\ \A k \in DOMAIN requested : requested[k] = k
    /\ Len(requested) <= LastPage
    /\ Len(yielded) <= total
    /\ \A k \in DOMAIN yielded : yielded[k] = k

\* every page was requested and every issue yielded
AllConsumed ==
    /\ Len(requested) = LastPage
    /\ yielded = [k \in 1..total |-> k]

\* C22: for a server holding total issues, ps to a page, get_issues requests
\* the pages 1, 2, ..., max(1, ceil(total/ps)) in this order and none beyond,
\* yields every issue once in the server's order, and comes to its end.
C22_ConsumesAllPages ==
    /\ [](PagesInOrder /\ (gen_pc = "done" => AllConsumed))
    /\ <>(gen_pc \in {"done", "raised"})

\* C22 witness: seven issues, three to a page, were read in three requests,
\* the last page holding one issue.
C22_Witness ==
    /\ gen_pc = "done" /\ total = 7 /\ ps = 3
    /\ requested = <<1, 2, 3>>
    /\ Len(yielded) = 7

\* a scan function was entered without the build command it asks for
MissingBuildCmd ==
    /\ scan_pc # "enter"
    /\ build_cmd = <<>>
    /\ \/ scan_fun = "scan_java_proj" /\ build_type \in {"gradle", "ant"}
       \/ scan_fun = "scan_cs_proj"

\* C23 as stated: scan_java_proj with build type gradle or ant and no build
\* command, and scan_cs_proj with no build command, fail with ConfigError, and
\* no build or scan command is run.
C23_MissingBuildCmdIsConfigError ==
    MissingBuildCmd => (Aborted /\ err = "ConfigError" /\ commands = <<>>)

\* C23 (amended): scan_java_proj with build type gradle or ant and no build
\* command, and scan_cs_proj with no build command, fail with
\* CompileTaskError, and no build or scan command is run.
C23_MissingBuildCmdIsCompileError ==
    MissingBuildCmd => (Aborted /\ err = "CompileTaskError" /\ commands = <<>>)

\* C23 witness: ant without a build command has failed next to its own
\* server, which was killed first.
C23_Witness ==
    /\ scan_fun = "scan_java_proj" /\ build_type = "ant" /\ build_cmd = <<>>
    /\ pc = "failed" /\ model = LOCAL_MODEL /\ abort_kill
    /\ err = "CompileTaskError" /\ commands = <<>>

\* the steps that build
IsBuildStep(s) == s \in {"prebuild", "gradle", "maven", "ant", "begin", "build"}

\* C24 as stated: a build step that ends with a return code other than 0 or
\* cannot be started fails the run with CompileTaskError, a scan step that
\* ends with a return code other than 0 with AnalyzeTaskError, a build type
\* outside any, no_build, gradle, maven, mvn, ant with ConfigError; the
\* server of a LOCAL model is killed before the error, and nothing is run
\* after the failed step.
C24_FailuresTypedByStep ==
    /\ \A k \in DOMAIN commands :
          commands[k].returncode # 0
          => /\ k = Len(commands)
             /\ Aborted /\ scan_pc = "raised"
             /\ err = IF IsBuildStep(commands[k].step) THEN "CompileTaskError"
                      ELSE "AnalyzeTaskError"
    /\ (/\ scan_fun = "scan_java_proj" /\ scan_pc # "enter"
        /\ build_type \notin {"any", "no_build", "gradle", "maven", "mvn", "ant"})
       => (Aborted /\ err = "ConfigError" /\ commands = <<>>)
    /\ (pc = "failed" /\ model = LOCAL_MODEL) => (abort_kill /\ proc = "killed")

\* the entries of rule_list that name the rule squid:S100 and hold options
OverrideEntries ==
    {i \in DOMAIN rule_list : rule_list[i].name = real_name(R1)}

\* the rule has an override: the first entry that names it holds options
HasOverride ==
    /\ OverrideEntries # {}
    /\ \A j \in OverrideEntries :
          (\A i \in OverrideEntries : j <= i) => rule_list[j].params.options # <<>>

\* the value the override gives to a key, <<>> where it does not mention it
OverrideValue(k) ==
    LET j == CHOOSE j \in OverrideEntries : \A i \in OverrideEntries : j <= i
        o == rule_list[j].params.options
    IN IF \E i \in DOMAIN o : o[i][1] = k
       THEN <<o[CHOOSE i \in DOMAIN o : o[i][1] = k][2]>>
       ELSE <<>>

\* C31: after the rule loop has passed a retained rule, the rule has the
\* parameters of the document, in their order; with an override, a parameter
\* whose key the override mentions has the override's value and every other
\* parameter its original value, and no parameter was added; without an
\* override the parameters are as they were.
C31_OverrideSetsOnlyNamedKeys ==
    over_pc = "done"
    => /\ Len(parameters) = Len(original)
       /\ \A i \in DOMAIN parameters :
             /\ parameters[i].key = original[i].key
             /\ parameters[i].value =
                   IF HasOverride /\ OverrideValue(original[i].key) # <<>>
                   THEN OverrideValue(original[i].key)[1]
                   ELSE original[i].value

\* C31 witness: the override names max and min; the document has max and
\* format: max has the new value, format the old one, min was not added.
C31_Witness ==
    /\ over_pc = "done"
    /\ original = <<[key |-> "max", value |-> "1"], [key |-> "format", value |-> "1"]>>
    /\ HasOverride
    /\ OverrideValue("max") = <<"20">> /\ OverrideValue("min") = <<"10">>
    /\ parameters = <<[key |-> "max", value |-> "20"], [key |-> "format", value |-> "1"]>>

\* C32 as stated: outside quality-gate mode (neither SONAR_QUALITYPROFILE nor
\* SONAR_QUALITYPROFILE_TYPE set) every finding has a rule of the allowed
\* rules; in quality-gate mode the query carries no rules and every issue
\* yielded becomes a finding.
C32_FindingsWithinAllowedRules ==
    /\ ~is_quality => \A k \in DOMAIN issues : real_name(issues[k].rule) \in rules
    /\ is_quality => query_rules = <<>>
    /\ (is_quality /\ dupl_blocks = <<>> /\ issues = <<>>) => ENABLED NextIssues

\* C32 (amended): outside quality-gate mode and with allowed rules that are
\* not empty, the query carries the allowed rules and every finding has a rule
\* of them; with no allowed rule at all, and in quality-gate mode, every issue
\* yielded becomes a finding, and in quality-gate mode the query carries no
\* rules.
C32_FindingsWithinNonEmptyAllowedRules ==
    /\ (~is_quality /\ rules # {})
       => /\ query_rules = <<rules>>
          /\ \A k \in DOMAIN issues : real_name(issues[k].rule) \in rules
    /\ is_quality => query_rules = <<>>
    /\ ((is_quality \/ rules = {}) /\ dupl_blocks = <<>> /\ issues = <<>>)
       => ENABLED NextIssues

\* C32 witness: outside quality-gate mode, with squid:S100 the only allowed
\* rule, an issue of that rule became a finding.
C32_Witness ==
    /\ ~is_quality /\ rules = {real_name(R1)}
    /\ issues # <<>> /\ issues[1].rule = R1

\* the findings the summary counts: the rule ends in :S3776 and the message
\* carries two numbers
Complex == {k \in DOMAIN found : found[k].rule.key = "S3776"
                                 /\ Len(SelectSeq(found[k].msg, isdigit)) >= 2}

\* the two numbers of the message of a finding
Numbers(k) == SelectSeq(found[k].msg, isdigit)

\* the sum of the reported values over a set of findings
RECURSIVE SumReported(_)
SumReported(K) ==
    IF K = {} THEN 0
    ELSE LET k == CHOOSE k \in K : TRUE
         IN int(Numbers(k)[1]) + SumReported(K \ {k})

\* the sum of reported value minus threshold over a set of findings
RECURSIVE SumExcess(_)
SumExcess(K) ==
    IF K = {} THEN 0
    ELSE LET k == CHOOSE k \in K : TRUE
         IN (int(Numbers(k)[1]) - int(Numbers(k)[2])) + SumExcess(K \ {k})

\* C33: the summary is written exactly when the scan is not incremental; it
\* holds the number of findings of a rule ending in :S3776 with a reported
\* value and a threshold, the average of the reported values and the sum of
\* reported value minus threshold, all 0 when there is no such finding.
C33_SummaryOnlyForFullScan ==
    sum_pc = "done"
    => /\ incr_scan <=> summary = <<>>
       /\ ~incr_scan
          => /\ summary[1].over_cognc_func_count = Cardinality(Complex)
             /\ summary[1].over_cognc_sum = SumExcess(Complex)
             /\ summary[1].over_cognc_func_average[1]
                   * (IF Complex = {} THEN 1 ELSE Cardinality(Complex))
                = SumReported(Complex) * summary[1].over_cognc_func_average[2]
             /\ Complex = {} => summary[1].over_cognc_func_average[1] = 0

\* C33 witness: a full scan with two counted findings, 20 over 15 and 9 under
\* 15, and one finding of another rule: count 2, average 29/2, sum -1.
C33_Witness ==
    /\ sum_pc = "done" /\ ~incr_scan
    /\ Len(found) = 3 /\ Cardinality(Complex) = 2
    /\ summary[1].over_cognc_func_count = 2
    /\ summary[1].over_cognc_func_average = <<29, 2>>
    /\ summary[1].over_cognc_sum = -1

\* C38 as stated: once a project_create call of _wait_until_project_create
\* has returned, or was answered with a validation error, the phase does not
\* end with an error, however many generic client errors came before it
\* within the retry budget and whatever time has passed.
C38_CreatedProjectEndsPhaseWithoutError ==
    ~(Aborted /\ failed_in = "project_create_loop" /\ is_project_created)

\* the phases of scan_proj in their order, by the position in it
Phase(p) ==
    CASE p \in {"start", "wait_on", "wait_on_loop", "wait_on_poll"} -> 1
      [] p \in {"get_common_cmds", "project_create", "project_create_loop"} -> 2
      [] p \in {"set_settings", "set_qualityprofiles"} -> 3
      [] p = "scan" -> 4
      [] p \in {"wait_task", "task_loop"} -> 5
      [] p \in {"dump_measures", "get_issues", "reset_settings"} -> 6
      [] p \in {"teardown", "teardown_kill", "done"} -> 7
      [] OTHER -> 8

C37_UpAnswerFromCommonEndpoint ==
    [][(pc = "wait_on_loop" /\ pc' = "get_common_cmds" /\ model = COMMON_MODEL)
       => polled_model = COMMON_MODEL]_vars

\* the run has ended: scan_proj returned, or _raise_error raised
RunEnded ==
    \/ pc = "done"
    \/ pc = "failed" /\ err \in {"AnalyzeTaskError", "CompileTaskError", "ConfigError"}

\* C39 as stated: when a run has ended, by the return of scan_proj or through
\* _raise_error, the local server it spawned is not running any more, also
\* when the run went over to the COMMON server after the spawn; and the
\* spawn comes after the kill of a server that was still around.
C39_NoLocalServerLeftRunning ==
    /\ RunEnded => proc # "running"
    /\ proc # "none" => kills >= 1

\* C35 as stated: kill_proc_famliy returns for every outcome of the process
\* operations, a process that is gone counting as done, and once the
\* descendants of the target were listed kill() is called on every one of
\* them.
C35_KillsEveryDescendant ==
    /\ kill_pc \in {"try", "kill_children", "wait_procs", "returned"}
    /\ (/\ kill_pc = "returned"
        /\ target \in {"terminate:NoSuchProcess", "terminate:AccessDenied",
                       "terminated"})
       => attempted = DOMAIN descendants


\* the handle scan_proj asks for first: the file SONAR_REPORT names, else
\* what the scan function returned
AskedReport ==
    IF SONAR_REPORT # <<>> THEN <<InSource(SONAR_REPORT[1])>> ELSE returned

\* the handle asked for is there
AskedExists == AskedReport # <<>> /\ AskedReport[1] \in on_disk

\* C36 (as claimed): every scan variant hands back an expected report-handle
\* path; when the path asked for is absent or does not exist, the handle is
\* a report-task.txt found under the source directory, else one found in the
\* scanner work directory; when none is found the run fails with
\* AnalyzeTaskError before any task-status query.
C36_EveryVariantHandsBackAPath ==
    /\ report_pc # "none" => returned # <<>>
    /\ report_pc \in {"searched", "opened", "raised"} =>
          IF AskedExists THEN report_path = AskedReport
          ELSE IF ReportFilesUnder("source") # {}
          THEN report_path # <<>> /\ report_path[1] \in ReportFilesUnder("source")
          ELSE ReportFilesUnder("scannerwork") # {} =>
                  /\ report_path # <<>>
                  /\ report_path[1] \in ReportFilesUnder("scannerwork")
    /\ (/\ report_pc \in {"opened", "raised"}
        /\ ~AskedExists
        /\ ReportFilesUnder("source") \cup ReportFilesUnder("scannerwork") = {})
          => /\ report_pc = "raised"
             /\ err = "AnalyzeTaskError"
             /\ queries = {}
             /\ polls = 0

\* C40 (as claimed): over any sequence of runs the extra server parameters
\* are in sonar.properties during the run that asked for them only: between
\* runs the file has its original lines, sonar.properties.temp never holds
\* changed lines, the file never holds more than the parameters of the run
\* under way, and a run without SONAR_SERVER_PARAMS starts the server with
\* the original lines.
C40_PropertiesRestoredAfterEveryRun ==
    /\ prop_pc = "idle" => property_path = Original
    /\ property_temp # <<>> => property_temp[1] = Original
    /\ prop_pc = "running" =>
          property_path = IF SONAR_SERVER_PARAMS # <<>>
                          THEN Original \o sonar_server_params ELSE Original
    /\ (prop_pc = "running" /\ SONAR_SERVER_PARAMS = <<>>) =>
          started_with = Original
====
